---------------------------- MODULE Spec2Model ----------------------------
(***************************************************************************)
(* Alignment & Diff Engine of the Spanish grammar checker.                 *)
(*                                                                         *)
(* Strings are sequences of UTF-16 code units, each written as a one       *)
(* character TLA+ string: <<"a", " ", "b">> is the JavaScript "a b".       *)
(* Offsets are 0-based as in the source; Slice and IndexOf translate to    *)
(* the 1-based sequences.                                                  *)
(***************************************************************************)
EXTENDS Integers, Sequences, FiniteSets, TLC

VARIABLES
  pc,              \* which run is in progress and where it stands
  canonical,       \* reindexCorrections: the canonical text
  inputCorrs,      \* reindexCorrections: the untrusted edits, as given
  byHint,          \* the edits, tagged with their index and sorted by start
  pos,             \* the for-of loop's position in byHint (1-based)
  cursor,          \* moving cursor for forwardGreedy
  out,             \* accumulated pieces
  rows,            \* per-edit diagnostics
  reindexed, skipped, totalDelta, oversizedSplits,
  cleaned,         \* the result's corrections
  metrics,         \* the result's metrics
  fnIn,            \* a pure function's arguments
  fnOut,           \* a pure function's result
  req,             \* handler: the request and what the upstream will answer
  calls,           \* handler: the outcomes of the calls to the upstream so far
  rLast,           \* handler: the local r, the upstream's last answer
  res              \* handler: the status of the response sent, if any

resolverVars == <<canonical, inputCorrs, byHint, pos, cursor, out, rows,
                  reindexed, skipped, totalDelta, oversizedSplits, cleaned, metrics>>
vars == <<pc, canonical, inputCorrs, byHint, pos, cursor, out, rows,
          reindexed, skipped, totalDelta, oversizedSplits, cleaned, metrics,
          fnIn, fnOut, req, calls, rLast, res>>
handlerVars == <<req, calls, rLast, res>>

----------------------------------------------------------------------------
(* Bounds of the model *)

\* longest canonical text of a resolver run
MaxText == 4
\* most edits of a resolver run
MaxEdits == 2
\* longest original of an edit of a resolver run
MaxOrig == 3
\* longest string given to the tokenizer
MaxTokLen == 4
\* longest token sequence given to lcsTokenMatches
MaxSeq == 3
\* longest original and suggestion given to splitOversized on its own
MaxSplitLen == 4
MaxDiffLen == 4
MaxHlLen == 4
MaxHlCorrected == 2
MaxIssues == 3
MaxLiteLen == 3
MaxLiteCorrected == 1
\* most pieces given to the final pass on its own, and their largest offset
MaxPieces == 3
MaxPieceEnd == 3
\* longest text and longest needle given to approxLocalAlign on its own
MaxAlignText == 4
MaxAlignNeedle == 3

(* ReindexOptions of the runs explored: the thresholds are parameters of   *)
(* reindexCorrections, scaled to the texts above.                          *)
Window == 2
ApproxWindow == 3
LevCutoff == 1
OversizedChars == 3
OversizedWords == 1
\* simThreshold, as the fraction SimNum / SimDen
SimNum == 4
SimDen == 5

opts == [window |-> Window, approxWindow |-> ApproxWindow, levCutoff |-> LevCutoff,
         simNum |-> SimNum, simDen |-> SimDen,
         oversizedChars |-> OversizedChars, oversizedWords |-> OversizedWords]

----------------------------------------------------------------------------
(* Characters *)

Letters == {"a", "b"}
Digits == {"1"}
Spaces == {" "}
\* a high and a low surrogate: "H" followed by "W" is one astral code point
HighSurr == {"H"}
LowSurr == {"W"}

\* every string over alphabet A of length at most n
RECURSIVE StrsOfLen(_, _)
StrsOfLen(A, n) ==
  IF n = 0 THEN {<<>>}
  ELSE {Append(s, ch) : s \in StrsOfLen(A, n - 1), ch \in A}
Strs(A, n) == UNION {StrsOfLen(A, k) : k \in 0..n}

----------------------------------------------------------------------------
(* JavaScript built-ins *)

Min(a, b) == IF a <= b THEN a ELSE b
Max(a, b) == IF a >= b THEN a ELSE b
SetMin(S) == CHOOSE x \in S : \A y \in S : x <= y

\* String.prototype.slice(a, b)
Slice(s, a, b) ==
  LET n == Len(s)
      from == IF a < 0 THEN Max(n + a, 0) ELSE Min(a, n)
      to == IF b < 0 THEN Max(n + b, 0) ELSE Min(b, n)
  IN IF from >= to THEN <<>> ELSE SubSeq(s, from + 1, to)

\* String.prototype.indexOf(needle, from): the first offset, or -1
IndexOf(text, needle, from) ==
  LET n == Len(text)
      m == Len(needle)
      f == Min(Max(from, 0), n)
      found == {i \in f..(n - m) : SubSeq(text, i + 1, i + m) = needle}
  IN IF found = {} THEN -1 ELSE SetMin(found)

\* the null of `number | null`
NULL == -1

\* Array.prototype.sort((a, b) => a.start - b.start): stable, ascending by start
RECURSIVE insertByStart(_, _)
insertByStart(sorted, c) ==
  IF sorted = <<>> THEN <<c>>
  ELSE IF sorted[1].start <= c.start THEN <<sorted[1]>> \o insertByStart(Tail(sorted), c)
  ELSE <<c>> \o sorted

RECURSIVE sortByStart(_)
sortByStart(s) ==
  IF s = <<>> THEN <<>>
  ELSE insertByStart(sortByStart(SubSeq(s, 1, Len(s) - 1)), s[Len(s)])

----------------------------------------------------------------------------
(* Reindexing helpers *)

Min3(a, b, c) == Min(a, Min(b, c))

\* one row of the dp array: acc holds the new dp[0..j-1]
RECURSIVE levRow(_, _, _, _, _)
levRow(a, b, i, prevRow, acc) ==
  LET j == Len(acc) IN
  IF j > Len(b) THEN acc
  ELSE levRow(a, b, i, prevRow,
              Append(acc, Min3(prevRow[j + 1] + 1,
                               acc[j] + 1,
                               prevRow[j] + (IF a[i] = b[j] THEN 0 ELSE 1))))

RECURSIVE levRows(_, _, _, _)
levRows(a, b, i, dp) ==
  IF i > Len(a) THEN dp
  ELSE levRows(a, b, i + 1, levRow(a, b, i, dp, <<i>>))

levenshtein(a, b) ==
  LET n == Len(a)
      m == Len(b)
  IN IF n = 0 THEN m
     ELSE IF m = 0 THEN n
     ELSE levRows(a, b, 1, [j \in 1..(m + 1) |-> j - 1])[m + 1]

clamp(n, lo, hi) == Max(lo, Min(hi, n))

\* the loop of findUniqueInWindow keeping the first of several occurrences
RECURSIVE fuwLoop_guess(_, _, _, _, _, _)
fuwLoop_guess(slice, needle, a, p, count, idx) ==
  LET found == IndexOf(slice, needle, p) IN
  IF found = -1 THEN (IF count >= 1 THEN idx ELSE NULL)
  ELSE IF count + 1 > 1 THEN idx
  ELSE fuwLoop_guess(slice, needle, a, found + 1, count + 1, a + found)

\* the while loop of findUniqueInWindow
RECURSIVE fuwLoop(_, _, _, _, _, _)
fuwLoop(slice, needle, a, p, count, idx) ==
  LET found == IndexOf(slice, needle, p) IN
  IF found = -1 THEN (IF count = 1 THEN idx ELSE NULL)
  ELSE IF count + 1 > 1 THEN NULL
  ELSE fuwLoop(slice, needle, a, found + 1, count + 1, a + found)

\* findUniqueInWindow returning the offset inside the slice, without a
findUniqueInWindow_sliceOffset(text, needle, hintStart, w) ==
  LET len == Len(text)
      a == clamp(hintStart - w, 0, len)
      b == clamp(hintStart + w, 0, len)
  IN fuwLoop(Slice(text, a, b), needle, 0, 0, 0, -1)

findUniqueInWindow(text, needle, hintStart, w) ==
  LET len == Len(text)
      a == clamp(hintStart - w, 0, len)
      b == clamp(hintStart + w, 0, len)
  IN fuwLoop(Slice(text, a, b), needle, a, 0, 0, -1)

\* forward-greedy searching from the start of the text, not from the cursor
forwardGreedy_fromStart(text, needle, cur) == IndexOf(text, needle, 0)

forwardGreedy(text, needle, cur) == IndexOf(text, needle, clamp(cur, 0, Len(text)))

\* the denominator of sim: Math.max(needle.length, cand.length || 1)
similarityDen(a, b) == Max(Len(a), IF Len(b) = 0 THEN 1 ELSE Len(b))

\* the gate with a candidate of equal similarity replacing the best so far
alignAccepts_orEqual(dist, den, levCutoff, simNum, simDen, bestIdx, best) ==
  /\ dist <= levCutoff \/ (den - dist) * simDen >= simNum * den
  /\ bestIdx = -1 \/ (den - dist) * best[2] >= best[1] * den

\* whether a candidate at distance dist, of similarity (den - dist) / den,
\* passes the gate and beats the best score so far; the best score is the
\* fraction best[1] / best[2], and -Infinity while bestIdx is -1
alignAccepts(dist, den, levCutoff, simNum, simDen, bestIdx, best) ==
  /\ dist <= levCutoff \/ (den - dist) * simDen >= simNum * den
  /\ bestIdx = -1 \/ (den - dist) * best[2] > best[1] * den

\* the for loop of approxLocalAlign
RECURSIVE alignLoop(_, _, _, _, _, _, _, _, _)

\* the rest of one iteration once dist and the similarity are known
alignScored(text, needle, i, hi, levCutoff, simNum, simDen, bestIdx, best, dist, den) ==
  IF alignAccepts(dist, den, levCutoff, simNum, simDen, bestIdx, best)
  THEN alignLoop(text, needle, i + 1, hi, levCutoff, simNum, simDen, i, <<den - dist, den>>)
  ELSE alignLoop(text, needle, i + 1, hi, levCutoff, simNum, simDen, bestIdx, best)

\* one iteration for the candidate cand = text.slice(i, i + needle.length)
alignCand(text, needle, i, hi, levCutoff, simNum, simDen, bestIdx, best, cand) ==
  alignScored(text, needle, i, hi, levCutoff, simNum, simDen, bestIdx, best,
              levenshtein(needle, cand), similarityDen(needle, cand))

alignLoop(text, needle, i, hi, levCutoff, simNum, simDen, bestIdx, best) ==
  IF i > hi THEN bestIdx
  ELSE alignCand(text, needle, i, hi, levCutoff, simNum, simDen, bestIdx, best,
                 Slice(text, i, i + Len(needle)))

approxLocalAlign(text, needle, hintStart, w, levCutoff, simNum, simDen) ==
  LET len == Len(text)
      a == clamp(hintStart - w, 0, len)
      b == clamp(hintStart + w, 0, len)
  IN alignLoop(text, needle, a, Max(a, Min(b, len - Len(needle))),
               levCutoff, simNum, simDen, -1, <<0, 1>>)

----------------------------------------------------------------------------
(* Tokenizer: /(\p{L}+|\d+|\s+|[^\s])/gu *)

IsLetter(ch) == ch \in Letters
IsDigit(ch) == ch \in Digits
IsSpace(ch) == ch \in Spaces

\* the end (exclusive, 0-based) of the maximal run of characters of one class from p
RECURSIVE runEnd(_, _, _)
runEnd(s, p, class) ==
  IF p < Len(s) /\ s[p + 1] \in class THEN runEnd(s, p + 1, class) ELSE p

\* the end of the match of the regular expression at offset p < Len(s):
\* the first alternative that matches, each one greedy; with the u flag
\* [^\s] takes a whole code point, a surrogate pair included
matchEnd(s, p) ==
  LET ch == s[p + 1] IN
  IF IsLetter(ch) THEN runEnd(s, p, Letters)
  ELSE IF IsDigit(ch) THEN runEnd(s, p, Digits)
  ELSE IF IsSpace(ch) THEN runEnd(s, p, Spaces)
  ELSE IF ch \in HighSurr /\ p + 1 < Len(s) /\ s[p + 2] \in LowSurr THEN p + 2
  ELSE p + 1

\* the loop for a regular expression without the \s+ alternative: exec
\* moves on to the next character that is not whitespace
RECURSIVE tokLoop_noSpaceRuns(_, _, _)
tokLoop_noSpaceRuns(s, p, tokens) ==
  IF p >= Len(s) THEN tokens
  ELSE IF IsSpace(s[p + 1]) THEN tokLoop_noSpaceRuns(s, p + 1, tokens)
  ELSE LET e == matchEnd(s, p) IN
       tokLoop_noSpaceRuns(s, e, Append(tokens, [token |-> Slice(s, p, e), start |-> p, end |-> e]))

\* the while loop over re.exec: p is re.lastIndex
RECURSIVE tokLoop(_, _, _)
tokLoop(s, p, tokens) ==
  IF p >= Len(s) THEN tokens
  ELSE LET e == matchEnd(s, p) IN
       tokLoop(s, e, Append(tokens, [token |-> Slice(s, p, e), start |-> p, end |-> e]))

tokenizeWithOffsets(s) == tokLoop(s, 0, <<>>)

tokenizeUnicodeWords(s) == tokLoop(s, 0, <<>>)

----------------------------------------------------------------------------
(* LCS over token sequences *)

\* the dp table: dp[i][j] is the LCS length of a[i..] and b[j..] (0-based)
lcsTable(a, b) ==
  LET n == Len(a)
      m == Len(b)
      dp[i \in 0..n, j \in 0..m] ==
        IF i = n \/ j = m THEN 0
        ELSE IF a[i + 1] = b[j + 1] THEN 1 + dp[i + 1, j + 1]
        ELSE Max(dp[i + 1, j], dp[i, j + 1])
  IN dp

\* the comparison of the backtrack with its operands exchanged
lcsAdvanceA_swapped(dp, i, j) == dp[i, j + 1] >= dp[i + 1, j]

\* whether the backtrack advances i when a[i] and b[j] differ
lcsAdvanceA(dp, i, j) == dp[i + 1, j] >= dp[i, j + 1]

\* the backtrack loop
RECURSIVE lcsWalk(_, _, _, _, _, _)
lcsWalk(a, b, dp, i, j, matches) ==
  IF ~(i < Len(a) /\ j < Len(b)) THEN matches
  ELSE IF a[i + 1] = b[j + 1] THEN lcsWalk(a, b, dp, i + 1, j + 1, Append(matches, <<i, j>>))
  ELSE IF lcsAdvanceA(dp, i, j) THEN lcsWalk(a, b, dp, i + 1, j, matches)
  ELSE lcsWalk(a, b, dp, i, j + 1, matches)

lcsTokenMatches(a, b) == lcsWalk(a, b, lcsTable(a, b), 0, 0, <<>>)

\* the copy of lcsTokenMatches in src/utils/text.ts
textLcsTokenMatches(a, b) == lcsWalk(a, b, lcsTable(a, b), 0, 0, <<>>)

----------------------------------------------------------------------------
(* splitOversized *)

\* orig.trim().split(/\s+/).filter(Boolean).length
wordCount(s) ==
  Cardinality({p \in 1..Len(s) : ~IsSpace(s[p]) /\ (p = 1 \/ IsSpace(s[p - 1]))})

\* the size test with < for <= on the length
withinThresholds_strict(c, o) ==
  Len(c.original) < o.oversizedChars /\ wordCount(c.original) <= o.oversizedWords

\* the size test that returns [c] at once
withinThresholds(c, o) ==
  Len(c.original) <= o.oversizedChars /\ wordCount(c.original) <= o.oversizedWords

RECURSIVE joinTokens(_)
joinTokens(toks) ==
  IF toks = <<>> THEN <<>> ELSE toks[1].token \o joinTokens(Tail(toks))

\* pushChange with the offsets inside original taken for offsets in the text
pushChange_noParentStart(c, tokA, tokB, result, aStartIdx, aEndIdx, bStartIdx, bEndIdx) ==
  IF aStartIdx >= aEndIdx /\ bStartIdx >= bEndIdx THEN result
  ELSE
    LET aStartOff == IF aStartIdx < Len(tokA) THEN tokA[aStartIdx + 1].start
                     ELSE IF Len(tokA) > 0 THEN tokA[Len(tokA)].end ELSE 0
        aEndOff == IF aEndIdx > 0 THEN tokA[aEndIdx].end ELSE aStartOff
        origSlice == Slice(c.original, aStartOff, aEndOff)
        suggSlice == joinTokens(SubSeq(tokB, bStartIdx + 1, bEndIdx))
    IN IF Len(origSlice) = 0 /\ Len(suggSlice) = 0 THEN result
       ELSE Append(result, [c EXCEPT !.start = aStartOff,
                                      !.end = aEndOff,
                                      !.original = origSlice,
                                      !.suggestion = suggSlice])

\* pushChange that builds the piece without the parent's type
pushChange_retyped(c, tokA, tokB, result, aStartIdx, aEndIdx, bStartIdx, bEndIdx) ==
  IF aStartIdx >= aEndIdx /\ bStartIdx >= bEndIdx THEN result
  ELSE
    LET aStartOff == IF aStartIdx < Len(tokA) THEN tokA[aStartIdx + 1].start
                     ELSE IF Len(tokA) > 0 THEN tokA[Len(tokA)].end ELSE 0
        aEndOff == IF aEndIdx > 0 THEN tokA[aEndIdx].end ELSE aStartOff
        origSlice == Slice(c.original, aStartOff, aEndOff)
        suggSlice == joinTokens(SubSeq(tokB, bStartIdx + 1, bEndIdx))
    IN IF Len(origSlice) = 0 /\ Len(suggSlice) = 0 THEN result
       ELSE Append(result, [c EXCEPT !.start = c.start + aStartOff,
                                      !.end = c.start + aEndOff,
                                      !.original = origSlice,
                                      !.suggestion = suggSlice,
                                      !.type = "other"])

\* pushChange that pushes no change of an empty original
pushChange_noInsertions(c, tokA, tokB, result, aStartIdx, aEndIdx, bStartIdx, bEndIdx) ==
  IF aStartIdx >= aEndIdx THEN result
  ELSE
    LET aStartOff == IF aStartIdx < Len(tokA) THEN tokA[aStartIdx + 1].start
                     ELSE IF Len(tokA) > 0 THEN tokA[Len(tokA)].end ELSE 0
        aEndOff == IF aEndIdx > 0 THEN tokA[aEndIdx].end ELSE aStartOff
        origSlice == Slice(c.original, aStartOff, aEndOff)
        suggSlice == joinTokens(SubSeq(tokB, bStartIdx + 1, bEndIdx))
    IN IF Len(origSlice) = 0 THEN result
       ELSE Append(result, [c EXCEPT !.start = c.start + aStartOff,
                                      !.end = c.start + aEndOff,
                                      !.original = origSlice,
                                      !.suggestion = suggSlice])

\* pushChange: result with the change appended, or result itself
pushChange(c, tokA, tokB, result, aStartIdx, aEndIdx, bStartIdx, bEndIdx) ==
  IF aStartIdx >= aEndIdx /\ bStartIdx >= bEndIdx THEN result
  ELSE
    LET aStartOff == IF aStartIdx < Len(tokA) THEN tokA[aStartIdx + 1].start
                     ELSE IF Len(tokA) > 0 THEN tokA[Len(tokA)].end ELSE 0
        aEndOff == IF aEndIdx > 0 THEN tokA[aEndIdx].end ELSE aStartOff
        origSlice == Slice(c.original, aStartOff, aEndOff)
        suggSlice == joinTokens(SubSeq(tokB, bStartIdx + 1, bEndIdx))
    IN IF Len(origSlice) = 0 /\ Len(suggSlice) = 0 THEN result
       ELSE Append(result, [c EXCEPT !.start = c.start + aStartOff,
                                      !.end = c.start + aEndOff,
                                      !.original = origSlice,
                                      !.suggestion = suggSlice])

\* the loop over matches without the pushChange of the tail
RECURSIVE splitWalk_noTail(_, _, _, _, _, _, _, _)
splitWalk_noTail(c, tokA, tokB, matches, k, aPos, bPos, result) ==
  IF k > Len(matches) THEN result
  ELSE
    LET mi == matches[k][1]
        mj == matches[k][2]
    IN splitWalk_noTail(c, tokA, tokB, matches, k + 1, mi + 1, mj + 1,
                        IF mi > aPos \/ mj > bPos
                        THEN pushChange(c, tokA, tokB, result, aPos, mi, bPos, mj)
                        ELSE result)

\* the loop over matches, then the tail
RECURSIVE splitWalk(_, _, _, _, _, _, _, _)
splitWalk(c, tokA, tokB, matches, k, aPos, bPos, result) ==
  IF k > Len(matches)
  THEN pushChange(c, tokA, tokB, result, aPos, Len(tokA), bPos, Len(tokB))
  ELSE
    LET mi == matches[k][1]
        mj == matches[k][2]
    IN splitWalk(c, tokA, tokB, matches, k + 1, mi + 1, mj + 1,
                 IF mi > aPos \/ mj > bPos
                 THEN pushChange(c, tokA, tokB, result, aPos, mi, bPos, mj)
                 ELSE result)

\* a total span that is never zero
totalSpan_one(result) == 1

RECURSIVE totalSpan(_)
totalSpan(result) ==
  IF result = <<>> THEN 0
  ELSE (result[1].end - result[1].start) + totalSpan(Tail(result))

\* the token diff of an oversized edit
splitPieces(c) ==
  LET tokA == tokenizeWithOffsets(c.original)
      tokB == tokenizeWithOffsets(c.suggestion)
      seqA == [t \in 1..Len(tokA) |-> tokA[t].token]
      seqB == [t \in 1..Len(tokB) |-> tokB[t].token]
  IN splitWalk(c, tokA, tokB, lcsTokenMatches(seqA, seqB), 1, 0, 0, <<>>)

splitOversized(c, o) ==
  IF withinThresholds(c, o) THEN <<c>>
  ELSE LET result == splitPieces(c) IN
       IF Len(result) = 0 \/ totalSpan(result) = 0 THEN <<c>> ELSE result

----------------------------------------------------------------------------
(* diffTokensToHunks *)

\* tok.map(t => t.token)
tokenTexts(tok) == [t \in 1..Len(tok) |-> tok[t].token]

\* offsetsA: the character range of the tokens aStart..aEnd-1 of the original
offsetsA(tokA, aStart, aEnd) ==
  LET start == IF aStart < Len(tokA) THEN tokA[aStart + 1].start
               ELSE IF Len(tokA) > 0 THEN tokA[Len(tokA)].end ELSE 0
      end == IF aEnd > 0 THEN tokA[aEnd].end ELSE start
  IN <<start, end>>

\* offsetsB: the same over the tokens of the corrected text
offsetsB(tokB, bStart, bEnd) ==
  LET start == IF bStart < Len(tokB) THEN tokB[bStart + 1].start
               ELSE IF Len(tokB) > 0 THEN tokB[Len(tokB)].end ELSE 0
      end == IF bEnd > 0 THEN tokB[bEnd].end ELSE start
  IN <<start, end>>

\* pushHunk: hunks with one more hunk
pushHunk(tokA, tokB, hunks, kind, aStart, aEnd, bStart, bEnd) ==
  Append(hunks, [kind |-> kind,
                 aStart |-> aStart, aEnd |-> aEnd, bStart |-> bStart, bEnd |-> bEnd,
                 aStartOffset |-> offsetsA(tokA, aStart, aEnd)[1],
                 aEndOffset |-> offsetsA(tokA, aStart, aEnd)[2],
                 bStartOffset |-> offsetsB(tokB, bStart, bEnd)[1],
                 bEndOffset |-> offsetsB(tokB, bStart, bEnd)[2]])

\* the changes before a match with every gap on the original side a remove
pushChanges_removeOnly(tokA, tokB, hunks, aPos, aTo, bPos, bTo) ==
  IF aTo > aPos THEN pushHunk(tokA, tokB, hunks, "remove", aPos, aTo, bPos, bPos)
  ELSE IF bTo > bPos THEN pushHunk(tokA, tokB, hunks, "insert", aPos, aPos, bPos, bTo)
  ELSE hunks

\* the changes before a match, or after the last one: replace, remove or insert
pushChanges(tokA, tokB, hunks, aPos, aTo, bPos, bTo) ==
  IF aTo > aPos /\ bTo > bPos
  THEN pushHunk(tokA, tokB, hunks, "replace", aPos, aTo, bPos, bTo)
  ELSE IF aTo > aPos THEN pushHunk(tokA, tokB, hunks, "remove", aPos, aTo, bPos, bPos)
  ELSE IF bTo > bPos THEN pushHunk(tokA, tokB, hunks, "insert", aPos, aPos, bPos, bTo)
  ELSE hunks

\* the loop over matches, then the tail
RECURSIVE hunkWalk(_, _, _, _, _, _, _)
hunkWalk(tokA, tokB, matches, k, aPos, bPos, hunks) ==
  IF k > Len(matches)
  THEN pushChanges(tokA, tokB, hunks, aPos, Len(tokA), bPos, Len(tokB))
  ELSE hunkWalk(tokA, tokB, matches, k + 1, matches[k][1] + 1, matches[k][2] + 1,
                pushHunk(tokA, tokB,
                         pushChanges(tokA, tokB, hunks, aPos, matches[k][1], bPos, matches[k][2]),
                         "equal", matches[k][1], matches[k][1] + 1,
                         matches[k][2], matches[k][2] + 1))

\* whether hunk h is merged into last, the last hunk coalesced so far
mergesInto(last, h) ==
  /\ last.kind = "equal"
  /\ h.kind = "equal"
  /\ last.aEnd = h.aStart
  /\ last.bEnd = h.bStart

\* the coalescing loop without the merge
RECURSIVE coalesce_none(_, _, _)
coalesce_none(hunks, k, coalesced) == hunks

\* coalesce consecutive equal hunks
RECURSIVE coalesce(_, _, _)
coalesce(hunks, k, coalesced) ==
  IF k > Len(hunks) THEN coalesced
  ELSE IF coalesced # <<>> /\ mergesInto(coalesced[Len(coalesced)], hunks[k])
  THEN coalesce(hunks, k + 1,
                [coalesced EXCEPT ![Len(coalesced)] =
                   [@ EXCEPT !.aEnd = hunks[k].aEnd, !.bEnd = hunks[k].bEnd,
                             !.aEndOffset = hunks[k].aEndOffset,
                             !.bEndOffset = hunks[k].bEndOffset]])
  ELSE coalesce(hunks, k + 1, Append(coalesced, hunks[k]))

\* the hunks of two token lists
diffTokens(tokA, tokB) ==
  coalesce(hunkWalk(tokA, tokB, textLcsTokenMatches(tokenTexts(tokA), tokenTexts(tokB)),
                    1, 0, 0, <<>>),
           1, <<>>)

diffTokensToHunks(original, corrected) ==
  diffTokens(tokenizeUnicodeWords(original), tokenizeUnicodeWords(corrected))

----------------------------------------------------------------------------
(* buildDiffHighlights *)

\* the loop of hunksToOriginalSpans over every hunk, whatever its kind
RECURSIVE spansLoop_allKinds(_, _, _, _)
spansLoop_allKinds(hunks, k, lastEnd, ranges) ==
  IF k > Len(hunks) THEN ranges
  ELSE
    LET start == Max(0, hunks[k].aStartOffset)
        end == Max(start, hunks[k].aEndOffset)
    IN IF end <= start THEN spansLoop_allKinds(hunks, k + 1, lastEnd, ranges)
       ELSE IF start < lastEnd
       THEN (IF end <= lastEnd THEN spansLoop_allKinds(hunks, k + 1, lastEnd, ranges)
             ELSE spansLoop_allKinds(hunks, k + 1, end,
                                     Append(ranges, [start |-> lastEnd, end |-> end])))
       ELSE spansLoop_allKinds(hunks, k + 1, end, Append(ranges, [start |-> start, end |-> end]))

\* the loop of hunksToOriginalSpans
RECURSIVE spansLoop(_, _, _, _)
spansLoop(hunks, k, lastEnd, ranges) ==
  IF k > Len(hunks) THEN ranges
  ELSE IF hunks[k].kind # "remove" /\ hunks[k].kind # "replace"
  THEN spansLoop(hunks, k + 1, lastEnd, ranges)
  ELSE
    LET start == Max(0, hunks[k].aStartOffset)
        end == Max(start, hunks[k].aEndOffset)
    IN IF end <= start THEN spansLoop(hunks, k + 1, lastEnd, ranges)
       ELSE IF start < lastEnd
       THEN (IF end <= lastEnd THEN spansLoop(hunks, k + 1, lastEnd, ranges)
             ELSE spansLoop(hunks, k + 1, end, Append(ranges, [start |-> lastEnd, end |-> end])))
       ELSE spansLoop(hunks, k + 1, end, Append(ranges, [start |-> start, end |-> end]))

hunksToOriginalSpans(hunks) == spansLoop(hunks, 1, 0, <<>>)

\* the while loop of findOccurrencesInRange
RECURSIVE occLoop(_, _, _, _, _)
occLoop(text, needle, end, p, found) ==
  LET idx == IndexOf(text, needle, p) IN
  IF idx = -1 \/ idx + Len(needle) > end THEN found
  ELSE occLoop(text, needle, end, idx + 1, Append(found, idx))

findOccurrencesInRange(text, needle, start, end) ==
  IF needle = <<>> THEN <<>> ELSE occLoop(text, needle, end, start, <<>>)

overlaps(aStart, aEnd, bStart, bEnd) == Max(aStart, bStart) < Min(aEnd, bEnd)

\* the type of the last issue for that of the first
chooseSpanType_last(issues) ==
  IF issues = <<>> THEN "other"
  ELSE IF issues[Len(issues)].type = "" THEN "other"
  ELSE issues[Len(issues)].type

\* issues?.[0]?.type || 'other'
chooseSpanType(issues) ==
  IF issues = <<>> THEN "other"
  ELSE IF issues[1].type = "" THEN "other"
  ELSE issues[1].type

\* the candidate hunks of a needle: those whose range holds an occurrence
candidatesOf(original, needle, ranges) ==
  SelectSeq([h \in 1..Len(ranges) |->
               [h |-> h - 1,
                positions |-> findOccurrencesInRange(original, needle,
                                                     ranges[h].start, ranges[h].end)]],
            LAMBDA cand : Len(cand.positions) > 0)

\* claims.some(c => overlaps(c.start, c.end, start, end))
collides(claims, start, end) ==
  \E k \in 1..Len(claims) : overlaps(claims[k].start, claims[k].end, start, end)

\* the position chosen when a claimed occurrence is taken all the same
RECURSIVE firstUnclaimed_any(_, _, _, _)
firstUnclaimed_any(claims, positions, len, k) == positions[1]

\* the first position whose occurrence collides with no claim, or NULL
RECURSIVE firstUnclaimed(_, _, _, _)
firstUnclaimed(claims, positions, len, k) ==
  IF k > Len(positions) THEN NULL
  ELSE IF ~collides(claims, positions[k], positions[k] + len) THEN positions[k]
  ELSE firstUnclaimed(claims, positions, len, k + 1)

\* unplaced.push({ index, original, reason })
pushUnplaced(st, idx, needle, reason) ==
  [st EXCEPT !.unplaced = Append(@, [index |-> idx, original |-> needle, reason |-> reason])]

\* the outcome for issue idx with its single candidate hunk h, p being the
\* position chosen in it
attachAt(st, idx, needle, h, p) ==
  IF p = NULL THEN pushUnplaced(st, idx, needle, "ambiguous_claimed")
  ELSE [st EXCEPT !.hunkClaims[h + 1] = Append(@, [start |-> p, end |-> p + Len(needle)]),
                  !.issueToHunk[idx + 1] = h,
                  !.hunkToIssues[h + 1] = Append(@, idx)]

\* an issue found in several hunks attached to the first of them
attachCandidates_firstHunk(st, idx, needle, candidates) ==
  IF Len(candidates) = 0 THEN pushUnplaced(st, idx, needle, "no_matching_hunk")
  ELSE attachAt(st, idx, needle, candidates[1].h,
                firstUnclaimed(st.hunkClaims[candidates[1].h + 1], candidates[1].positions,
                               Len(needle), 1))

\* the outcome for issue idx given its candidate hunks
attachCandidates(st, idx, needle, candidates) ==
  IF Len(candidates) = 0 THEN pushUnplaced(st, idx, needle, "no_matching_hunk")
  ELSE IF Len(candidates) > 1
  THEN pushUnplaced(st, idx, needle, "ambiguous_multiple_hunks")
  ELSE attachAt(st, idx, needle, candidates[1].h,
                firstUnclaimed(st.hunkClaims[candidates[1].h + 1], candidates[1].positions,
                               Len(needle), 1))

\* the callback of issues.forEach for issue idx
attachIssue(original, ranges, st, idx, needle) ==
  IF needle = <<>> THEN pushUnplaced(st, idx, needle, "empty_original")
  ELSE attachCandidates(st, idx, needle, candidatesOf(original, needle, ranges))

\* issues.forEach
RECURSIVE attachLoop(_, _, _, _, _)
attachLoop(original, ranges, issues, k, st) ==
  IF k > Len(issues) THEN st
  ELSE attachLoop(original, ranges, issues, k + 1,
                  attachIssue(original, ranges, st, k - 1, issues[k].original))

\* the structures prepared before the loop
attachInit(ranges, issues) ==
  [issueToHunk |-> [i \in 1..Len(issues) |-> NULL],
   hunkToIssues |-> [h \in 1..Len(ranges) |-> <<>>],
   hunkClaims |-> [h \in 1..Len(ranges) |-> <<>>],
   unplaced |-> <<>>]

\* Build typed spans
typedSpans(ranges, issues, st) ==
  [h \in 1..Len(ranges) |->
     [start |-> ranges[h].start, end |-> ranges[h].end,
      type |-> chooseSpanType([i \in 1..Len(st.hunkToIssues[h]) |->
                                 issues[st.hunkToIssues[h][i] + 1]]),
      originalIndex |-> h - 1]]

\* the result assembled from the hunks, the ranges and the attachments
highlightsResult(hunks, ranges, issues, st) ==
  [spans |-> typedSpans(ranges, issues, st),
   hunkRanges |-> ranges,
   issueToHunk |-> st.issueToHunk,
   hunkToIssues |-> st.hunkToIssues,
   diagnostics |->
     [totalHunks |-> Len(hunks),
      highlightedHunks |-> Len(ranges),
      attachedIssues |-> Cardinality({i \in 1..Len(issues) : st.issueToHunk[i] # NULL}),
      unplacedIssues |-> Len(st.unplaced),
      unplacedSamples |-> SubSeq(st.unplaced, 1, Min(5, Len(st.unplaced)))]]

\* the attachments over the ranges of the hunks
highlightsOfRanges(original, hunks, ranges, issues) ==
  highlightsResult(hunks, ranges, issues,
                   attachLoop(original, ranges, issues, 1, attachInit(ranges, issues)))

highlightsOfHunks(original, hunks, issues) ==
  highlightsOfRanges(original, hunks, hunksToOriginalSpans(hunks), issues)

\* hunkClaims and unplaced, the locals that are not returned, at the return
attachmentsOfRanges(original, ranges, issues) ==
  attachLoop(original, ranges, issues, 1, attachInit(ranges, issues))

highlightLocals(original, corrected, issues) ==
  attachmentsOfRanges(original, hunksToOriginalSpans(diffTokensToHunks(original, corrected)),
                      issues)

buildDiffHighlights(original, corrected, issues) ==
  highlightsOfHunks(original, diffTokensToHunks(original, corrected), issues)

----------------------------------------------------------------------------
(* buildDiffHighlights over issue offsets: the builder that takes IssueLite *)

\* [\p{L}\p{N}]
WordChars == Letters \cup Digits

\* src.matchAll(TOKEN_RE) with TOKEN_RE = /[\p{L}\p{N}]+|[^\s]/gu: a run of
\* letters and numbers, or one code point that is not whitespace;
\* whitespace belongs to no token
RECURSIVE srcTokLoop(_, _, _)
srcTokLoop(src, p, toks) ==
  IF p >= Len(src) THEN toks
  ELSE IF src[p + 1] \in WordChars
  THEN srcTokLoop(src, runEnd(src, p, WordChars),
                  Append(toks, [text |-> Slice(src, p, runEnd(src, p, WordChars)),
                               s |-> p, e |-> runEnd(src, p, WordChars)]))
  ELSE IF IsSpace(src[p + 1]) THEN srcTokLoop(src, p + 1, toks)
  ELSE IF src[p + 1] \in HighSurr /\ p + 1 < Len(src) /\ src[p + 2] \in LowSurr
  THEN srcTokLoop(src, p + 2, Append(toks, [text |-> Slice(src, p, p + 2), s |-> p, e |-> p + 2]))
  ELSE srcTokLoop(src, p + 1, Append(toks, [text |-> Slice(src, p, p + 1), s |-> p, e |-> p + 1]))

tokenizeWithPositions(src) == srcTokLoop(src, 0, <<>>)

tokenizeStrings(str) ==
  [t \in 1..Len(srcTokLoop(str, 0, <<>>)) |-> srcTokLoop(str, 0, <<>>)[t].text]

\* the pairs {i, j} as <<i, j>>
lcsPairs(a, b) == lcsWalk(a, b, lcsTable(a, b), 0, 0, <<>>)

\* hunks with the source range of the tokens from..to-1 (0-based), if any
pushSourceHunk(srcTokens, hunks, from, to) ==
  IF to > from /\ srcTokens[to].e > srcTokens[from + 1].s
  THEN Append(hunks, [start |-> srcTokens[from + 1].s, end |-> srcTokens[to].e])
  ELSE hunks

\* the loop over pairs, then the tail of the source
RECURSIVE sourceHunkWalk(_, _, _, _, _)
sourceHunkWalk(srcTokens, pairs, k, aIdx, hunks) ==
  IF k > Len(pairs) THEN pushSourceHunk(srcTokens, hunks, aIdx, Len(srcTokens))
  ELSE sourceHunkWalk(srcTokens, pairs, k + 1, pairs[k][1] + 1,
                      pushSourceHunk(srcTokens, hunks, aIdx, pairs[k][1]))

\* merge adjacent/overlapping hunks: cur is the hunk being grown
RECURSIVE mergeHunks(_, _, _, _)
mergeHunks(hunks, k, cur, merged) ==
  IF k > Len(hunks) THEN Append(merged, cur)
  ELSE IF hunks[k].start <= cur.end
  THEN mergeHunks(hunks, k + 1, [cur EXCEPT !.end = Max(cur.end, hunks[k].end)], merged)
  ELSE mergeHunks(hunks, k + 1, hunks[k], Append(merged, cur))

\* the defensive merge of the hunks found
mergeSourceHunks(hunks) ==
  IF Len(hunks) <= 1 THEN hunks
  ELSE mergeHunks(sortByStart(hunks), 2, sortByStart(hunks)[1], <<>>)

sourceHunksOf(srcTokens, a, b) ==
  mergeSourceHunks(sourceHunkWalk(srcTokens, lcsPairs(a, b), 1, 0, <<>>))

buildSourceHunks(srcTokens, dstTokens) ==
  sourceHunksOf(srcTokens, [t \in 1..Len(srcTokens) |-> srcTokens[t].text], dstTokens)

\* the first hunk (0-based) that overlaps the issue, or NULL
RECURSIVE firstOverlapping(_, _, _)
firstOverlapping(hunks, is, h) ==
  IF h > Len(hunks) THEN NULL
  ELSE IF Max(hunks[h].start, is.start) < Min(hunks[h].end, is.end) THEN h - 1
  ELSE firstOverlapping(hunks, is, h + 1)

\* the iteration that lists the issue under its hunk and leaves issueToHunk alone
attachToHunk_listOnly(st, i, is, h) ==
  IF h = NULL
  THEN [st EXCEPT !.unplaced = Append(@, [issueIdx |-> i, start |-> is.start, end |-> is.end])]
  ELSE [st EXCEPT !.hunkToIssues[h + 1] = Append(@, i)]

\* one iteration of the loop of attachIssuesToHunks, h being the hunk found
attachToHunk(st, i, is, h) ==
  IF h = NULL
  THEN [st EXCEPT !.unplaced = Append(@, [issueIdx |-> i, start |-> is.start, end |-> is.end])]
  ELSE [st EXCEPT !.hunkToIssues[h + 1] = Append(@, i), !.issueToHunk[i + 1] = h]

RECURSIVE attachByOverlap(_, _, _, _)
attachByOverlap(hunks, issues, k, st) ==
  IF k > Len(issues) THEN st
  ELSE attachByOverlap(hunks, issues, k + 1,
                       attachToHunk(st, k - 1, issues[k], firstOverlapping(hunks, issues[k], 1)))

\* the keys of the record hunkToIssues: (hunkToIssues[h] ||= []).push(i)
\* creates the key h with the first issue attached to hunk h
hunkToIssuesKeys(lists) == {h - 1 : h \in {g \in 1..Len(lists) : lists[g] # <<>>}}

\* the records hunkToIssues and issueToHunk as sequences: an absent key is
\* the empty list, or NULL
attachIssuesToHunks(hunks, issues) ==
  attachByOverlap(hunks, issues, 1,
                  [hunkToIssues |-> [h \in 1..Len(hunks) |-> <<>>],
                   issueToHunk |-> [i \in 1..Len(issues) |-> NULL],
                   unplaced |-> <<>>])

\* the keys of counts in their order
IssueTypeOrder ==
  <<"spelling", "grammar", "punctuation", "agreement", "accent", "diacritic", "other">>

\* counts[t] over the attached issues
countOfType(issueIdxs, issues, t) ==
  Cardinality({k \in 1..Len(issueIdxs) : issues[issueIdxs[k] + 1].type = t})

\* the loop over the keys of counts
RECURSIVE bestType(_, _, _, _, _)
bestType(issueIdxs, issues, k, best, max) ==
  IF k > Len(IssueTypeOrder) THEN best
  ELSE IF countOfType(issueIdxs, issues, IssueTypeOrder[k]) > max
  THEN bestType(issueIdxs, issues, k + 1, IssueTypeOrder[k],
                countOfType(issueIdxs, issues, IssueTypeOrder[k]))
  ELSE bestType(issueIdxs, issues, k + 1, best, max)

\* majority of attached issues, else 'other'
chooseHunkType(issueIdxs, issues) ==
  IF Len(issueIdxs) = 0 THEN "other" ELSE bestType(issueIdxs, issues, 1, "other", -1)

\* Normalize issues input: clamp to the source, keep those with end >= start
normalizeIssues(len, issuesInput) ==
  SelectSeq([k \in 1..Len(issuesInput) |->
               [start |-> Max(0, Min(len, issuesInput[k].start)),
                end |-> Max(0, Min(len, issuesInput[k].end)),
                type |-> issuesInput[k].type]],
            LAMBDA x : x.end >= x.start)

\* the guard: in-bounds, non-overlapping spans
RECURSIVE guardSpans(_, _, _, _, _)
guardSpans(spans, len, k, lastEnd, filtered) ==
  IF k > Len(spans) THEN filtered
  ELSE IF ~(spans[k].start >= 0 /\ spans[k].end >= spans[k].start /\ spans[k].end <= len)
  THEN guardSpans(spans, len, k + 1, lastEnd, filtered)
  ELSE IF Len(filtered) > 0 /\ spans[k].start < lastEnd
  THEN (IF spans[k].end <= lastEnd THEN guardSpans(spans, len, k + 1, lastEnd, filtered)
        ELSE guardSpans(spans, len, k + 1, spans[k].end,
                        Append(filtered, [spans[k] EXCEPT !.start = lastEnd])))
  ELSE guardSpans(spans, len, k + 1, spans[k].end, Append(filtered, spans[k]))

\* hunks.map to typed spans
diffSpans(hunks, issues, att) ==
  [h \in 1..Len(hunks) |->
     [start |-> hunks[h].start, end |-> hunks[h].end,
      type |-> chooseHunkType(att.hunkToIssues[h], issues)]]

\* the result assembled from the hunks, the issues and their attachment
diffDataOf(len, hunks, issues, att) ==
  [spans |-> guardSpans(sortByStart(diffSpans(hunks, issues, att)), len, 1, 0, <<>>),
   hunkRanges |-> hunks,
   issueToHunk |-> att.issueToHunk,
   hunkToIssues |-> att.hunkToIssues,
   issues |-> issues,
   diagnostics |->
     [totalHunks |-> Len(hunks),
      highlightedHunks |->
        Len(guardSpans(sortByStart(diffSpans(hunks, issues, att)), len, 1, 0, <<>>)),
      attachedIssues |-> Cardinality({i \in 1..Len(issues) : att.issueToHunk[i] # NULL}),
      unplacedIssues |-> Len(att.unplaced),
      unplacedSamples |-> SubSeq(att.unplaced, 1, Min(5, Len(att.unplaced)))]]

diffDataOfHunks(len, hunks, issues) ==
  diffDataOf(len, hunks, issues, attachIssuesToHunks(hunks, issues))

\* buildDiffHighlights(sourceNFC, corrected, issuesInput): DiffData; the
\* field issues is the local list of normalized issues
buildDiffHighlightsByOffset(source, corrected, issuesInput) ==
  diffDataOfHunks(Len(source),
                  buildSourceHunks(tokenizeWithPositions(source), tokenizeStrings(corrected)),
                  normalizeIssues(Len(source), issuesInput))

----------------------------------------------------------------------------
(* assertSpans *)

\* the loop over the sorted spans: the message of the error thrown, or "ok"
RECURSIVE assertLoop(_, _, _)
assertLoop(spans, textLen, i) ==
  IF i > Len(spans) THEN "ok"
  ELSE IF ~(spans[i].start >= 0 /\ spans[i].end >= spans[i].start /\ spans[i].end <= textLen)
  THEN "Invalid span bounds"
  ELSE IF i > 1 /\ spans[i].start < spans[i - 1].end THEN "Overlapping spans"
  ELSE assertLoop(spans, textLen, i + 1)

\* assertSpans(corrections, textLen): "ok" when it returns
assertSpans(corrections, textLen) == assertLoop(sortByStart(corrections), textLen, 1)

----------------------------------------------------------------------------
(* reindexCorrections *)

\* { ...c, _i: i }: every field of c, and the index as idx
tagged(c, i) == [f \in DOMAIN c \cup {"idx"} |-> IF f = "idx" THEN i ELSE c[f]]

\* the edits tagged with their index and left in the order given
tagAndSort_noSort(corrs) == [k \in 1..Len(corrs) |-> tagged(corrs[k], k - 1)]

\* (inputCorrs || []).map((c, i) => ({ ...c, _i: i })).sort(...)
tagAndSort(corrs) == sortByStart([k \in 1..Len(corrs) |-> tagged(corrs[k], k - 1)])

\* start0 of an edit
hintStart0(text, c) == clamp(c.start, 0, Len(text))

\* the location chain with forward-greedy tried before the window search
locate_forwardFirst(text, c, cur, o) ==
  LET start0 == hintStart0(text, c)
      want == c.original
  IN IF Slice(text, start0, start0 + Len(want)) = want
     THEN [newStart |-> start0, method |-> "as-is"]
     ELSE
       LET idx2 == forwardGreedy(text, want, cur) IN
       IF idx2 >= 0 THEN [newStart |-> idx2, method |-> "forward"]
       ELSE
         LET idx1 == findUniqueInWindow(text, want, start0, o.window) IN
         IF idx1 # NULL THEN [newStart |-> idx1, method |-> "window"]
         ELSE
           LET idx3 == approxLocalAlign(text, want, start0, o.approxWindow,
                                        o.levCutoff, o.simNum, o.simDen)
           IN IF idx3 >= 0 THEN [newStart |-> idx3, method |-> "approx"]
              ELSE [newStart |-> start0, method |-> "skipped"]

\* the location strategies in their order; method "skipped" when all of them fail
locate(text, c, cur, o) ==
  LET start0 == hintStart0(text, c)
      want == c.original
  IN IF Slice(text, start0, start0 + Len(want)) = want
     THEN [newStart |-> start0, method |-> "as-is"]
     ELSE
       LET idx1 == findUniqueInWindow(text, want, start0, o.window) IN
       IF idx1 # NULL THEN [newStart |-> idx1, method |-> "window"]
       ELSE
         LET idx2 == forwardGreedy(text, want, cur) IN
         IF idx2 >= 0 THEN [newStart |-> idx2, method |-> "forward"]
         ELSE
           LET idx3 == approxLocalAlign(text, want, start0, o.approxWindow,
                                        o.levCutoff, o.simNum, o.simDen)
           IN IF idx3 >= 0 THEN [newStart |-> idx3, method |-> "approx"]
              ELSE [newStart |-> start0, method |-> "skipped"]

\* the overlap adjustment searching from the located start, not the cursor
adjust_fromLocated(text, c, cur, loc) ==
  IF loc.newStart < cur
  THEN LET idx2 == forwardGreedy(text, c.original, loc.newStart) IN
       IF idx2 >= 0 THEN [newStart |-> idx2, method |-> loc.method \o "+adj"]
       ELSE [newStart |-> loc.newStart, method |-> "skipped_overlap"]
  ELSE loc

\* the located start kept as it is, before the cursor or not
adjust_none(text, c, cur, loc) == loc

\* non-overlap with the previous accepted span: move forward if needed
adjust(text, c, cur, loc) ==
  IF loc.newStart < cur
  THEN LET idx2 == forwardGreedy(text, c.original, cur) IN
       IF idx2 >= 0 THEN [newStart |-> idx2, method |-> loc.method \o "+adj"]
       ELSE [newStart |-> loc.newStart, method |-> "skipped_overlap"]
  ELSE loc

SkipStatuses == {"skipped", "skipped_overlap", "mismatch_after_reindex"}

\* the adjusted location taken without the final sanity check
sanityCheck_none(text, c, adj) == adj

\* the final sanity check comparing only the characters the text still has
sanityCheck_untilTextEnd(text, c, adj) ==
  IF adj.method = "skipped_overlap" THEN adj
  ELSE LET sub == Slice(text, adj.newStart, adj.newStart + Len(c.original)) IN
       IF sub # SubSeq(c.original, 1, Len(sub))
       THEN [newStart |-> adj.newStart, method |-> "mismatch_after_reindex"]
       ELSE adj

\* the final sanity check on the adjusted location
sanityCheck(text, c, adj) ==
  IF adj.method = "skipped_overlap" THEN adj
  ELSE IF Slice(text, adj.newStart, adj.newStart + Len(c.original)) # c.original
  THEN [newStart |-> adj.newStart, method |-> "mismatch_after_reindex"]
  ELSE adj

\* what follows the location chain: overlap adjustment, then sanity check
placeLocated(text, c, cur, loc) ==
  IF loc.method = "skipped" THEN loc
  ELSE sanityCheck(text, c, adjust(text, c, cur, loc))

\* where one edit ends up before it is split: its start and its method, or
\* the status it is skipped with
place(text, c, cur, o) == placeLocated(text, c, cur, locate(text, c, cur, o))

Abs(n) == IF n < 0 THEN 0 - n ELSE n

\* the rows pushed for the pieces of an accepted edit
pieceRows(text, c, pieces, status) ==
  [k \in 1..Len(pieces) |->
     [i |-> c.idx, start |-> pieces[k].start, end |-> pieces[k].end,
      original |-> pieces[k].original,
      substring |-> Slice(text, pieces[k].start, pieces[k].end),
      status |-> status]]

\* the final pass with cleaned.unshift(c) for cleaned.push(c)
RECURSIVE dropOverlaps_unshift(_, _, _)
dropOverlaps_unshift(sorted, lastEnd, acc) ==
  IF sorted = <<>> THEN acc
  ELSE LET c == Head(sorted) IN
       IF c.start < lastEnd THEN dropOverlaps_unshift(Tail(sorted), lastEnd, acc)
       ELSE IF c.end <= c.start THEN dropOverlaps_unshift(Tail(sorted), lastEnd, acc)
       ELSE dropOverlaps_unshift(Tail(sorted), c.end, <<c>> \o acc)

\* the final pass cutting an overlapping piece at lastEnd where the code drops it
RECURSIVE dropOverlaps_truncate(_, _, _)
dropOverlaps_truncate(sorted, lastEnd, acc) ==
  IF sorted = <<>> THEN acc
  ELSE LET c == Head(sorted) IN
       IF c.end <= c.start \/ c.end <= lastEnd
       THEN dropOverlaps_truncate(Tail(sorted), lastEnd, acc)
       ELSE dropOverlaps_truncate(Tail(sorted), c.end,
                                  Append(acc, [c EXCEPT !.start = Max(c.start, lastEnd)]))

\* the final pass: drop overlaps conservatively, and empty spans
RECURSIVE dropOverlaps(_, _, _)
dropOverlaps(sorted, lastEnd, acc) ==
  IF sorted = <<>> THEN acc
  ELSE LET c == Head(sorted) IN
       IF c.start < lastEnd THEN dropOverlaps(Tail(sorted), lastEnd, acc)
       ELSE IF c.end <= c.start THEN dropOverlaps(Tail(sorted), lastEnd, acc)
       ELSE dropOverlaps(Tail(sorted), c.end, Append(acc, c))

\* +(totalDelta / reindexed).toFixed(2), in hundredths
avgReindexDistance(delta, n) ==
  IF n = 0 THEN 0 ELSE (200 * delta + n) \div (2 * n)

\* the metrics with skipped_count reading the reindexed counter
buildMetrics_wrongCounter(total, nReindexed, nSkipped, nSplits, delta) ==
  [total |-> total,
   reindexed_count |-> nReindexed,
   skipped_count |-> nReindexed,
   oversized_splits_count |-> nSplits,
   avg_reindex_distance |-> avgReindexDistance(delta, nReindexed)]

\* the metrics of the result
buildMetrics(total, nReindexed, nSkipped, nSplits, delta) ==
  [total |-> total,
   reindexed_count |-> nReindexed,
   skipped_count |-> nSkipped,
   oversized_splits_count |-> nSplits,
   avg_reindex_distance |-> avgReindexDistance(delta, nReindexed)]

\* the rest of an iteration for edit c, placed as p
placeEdit(c, p) ==
  LET start0 == hintStart0(canonical, c)
      end0 == clamp(c.end, start0, Len(canonical))
      hintSub == Slice(canonical, start0, end0)
  IN IF p.method \in SkipStatuses
     THEN /\ skipped' = skipped + 1
          /\ rows' = Append(rows, [i |-> c.idx, start |-> c.start, end |-> c.end,
                                   original |-> c.original, substring |-> hintSub,
                                   status |-> p.method])
          /\ UNCHANGED <<cursor, out, reindexed, totalDelta, oversizedSplits>>
     ELSE LET corr == [c EXCEPT !.start = p.newStart,
                                !.end = p.newStart + Len(c.original)]
              pieces == splitOversized(corr, opts)
              status == p.method \o (IF Len(pieces) > 1 THEN "+split" ELSE "")
          IN /\ reindexed' = IF p.newStart # start0 THEN reindexed + 1 ELSE reindexed
             /\ totalDelta' = IF p.newStart # start0
                              THEN totalDelta + Abs(p.newStart - start0)
                              ELSE totalDelta
             /\ oversizedSplits' = IF Len(pieces) > 1
                                   THEN oversizedSplits + (Len(pieces) - 1)
                                   ELSE oversizedSplits
             /\ out' = out \o pieces
             /\ rows' = rows \o pieceRows(canonical, c, pieces, status)
             /\ cursor' = IF Len(pieces) > 0 THEN pieces[Len(pieces)].end ELSE cursor
             /\ UNCHANGED skipped

\* one iteration of the loop over byHint
ProcessEdit ==
  /\ pc = "loop"
  /\ pos <= Len(byHint)
  /\ placeEdit(byHint[pos], place(canonical, byHint[pos], cursor, opts))
  /\ pos' = pos + 1
  /\ UNCHANGED <<pc, canonical, inputCorrs, byHint, cleaned, metrics, fnIn, fnOut,
                 handlerVars>>

\* after the loop: final sort + non-overlap enforcement, and the metrics
Finish ==
  /\ pc = "loop"
  /\ pos > Len(byHint)
  /\ out' = sortByStart(out)
  /\ cleaned' = dropOverlaps(sortByStart(out), 0, <<>>)
  /\ metrics' = buildMetrics(Len(inputCorrs), reindexed, skipped, oversizedSplits, totalDelta)
  /\ pc' = "done"
  /\ UNCHANGED <<canonical, inputCorrs, byHint, pos, cursor, rows,
                 reindexed, skipped, totalDelta, oversizedSplits, fnIn, fnOut,
                 handlerVars>>

\* the characters of the resolver runs explored
ResolverChars == {"a", " "}
Types == {"grammar"}

\* the suggestions explored for an original: splitOversized reads the
\* suggestion of an oversized edit only, so an original of one word comes
\* with one suggestion, and an original of several words with three: one
\* that changes two words, one that drops the first word and adds a space at
\* the end, and the original itself
SuggestionsFor(o) ==
  IF wordCount(o) > 1 THEN {<<"b", " ", "b">>, <<" ", "a", " ">>, o} ELSE {<<"b">>}

\* the untrusted edits explored; `end` feeds only the diagnostic substring
\* of a skipped row
Edits ==
  UNION {{[start |-> s, end |-> s + Len(o), original |-> o, suggestion |-> g, type |-> t] :
            s \in 0..MaxText, g \in SuggestionsFor(o), t \in Types} :
         o \in Strs(ResolverChars, MaxOrig)}

RECURSIVE SeqsOfLen(_, _)
SeqsOfLen(S, n) ==
  IF n = 0 THEN {<<>>}
  ELSE {Append(q, x) : q \in SeqsOfLen(S, n - 1), x \in S}
SeqsUpTo(S, n) == UNION {SeqsOfLen(S, k) : k \in 0..n}

\* no request is being handled
HandlerIdle ==
  /\ req = <<>>
  /\ calls = <<>>
  /\ rLast = NULL
  /\ res = NULL

NoMetrics == [total |-> 0, reindexed_count |-> 0, skipped_count |-> 0,
              oversized_splits_count |-> 0, avg_reindex_distance |-> 0]

Init ==
  /\ pc = "loop"
  /\ canonical \in Strs(ResolverChars, MaxText)
  /\ inputCorrs \in SeqsUpTo(Edits, MaxEdits)
  /\ byHint = tagAndSort(inputCorrs)
  /\ pos = 1
  /\ cursor = 0
  /\ out = <<>>
  /\ rows = <<>>
  /\ reindexed = 0
  /\ skipped = 0
  /\ totalDelta = 0
  /\ oversizedSplits = 0
  /\ cleaned = <<>>
  /\ metrics = NoMetrics
  /\ fnIn = <<>>
  /\ fnOut = <<>>
  /\ HandlerIdle

Next == ProcessEdit \/ Finish

Spec == Init /\ [][Next]_vars

\* the fields an edit carries besides its span and its texts, different for
\* each position of the input list
CarriedTypes == <<"grammar", "spelling", "accent", "other">>
CarriedExplanations == <<"first", "second", "third", "fourth">>
withCarried(c, k) ==
  [f \in DOMAIN c \cup {"explanation_en", "confidence"} |->
     IF f = "type" THEN CarriedTypes[k]
     ELSE IF f = "explanation_en" THEN CarriedExplanations[k]
     ELSE IF f = "confidence" THEN k
     ELSE c[f]]

\* the runs of the resolver on edits with all the fields of the schema, the
\* confidence in tenths
InitCarried ==
  /\ pc = "loop"
  /\ canonical \in Strs(ResolverChars, MaxText)
  /\ inputCorrs \in {[k \in 1..Len(q) |-> withCarried(q[k], k)] : q \in SeqsUpTo(Edits, MaxEdits)}
  /\ byHint = tagAndSort(inputCorrs)
  /\ pos = 1
  /\ cursor = 0
  /\ out = <<>>
  /\ rows = <<>>
  /\ reindexed = 0
  /\ skipped = 0
  /\ totalDelta = 0
  /\ oversizedSplits = 0
  /\ cleaned = <<>>
  /\ metrics = NoMetrics
  /\ fnIn = <<>>
  /\ fnOut = <<>>
  /\ HandlerIdle

SpecCarried == InitCarried /\ [][Next]_vars

\* the edits whose original is text.slice(start, end), the end as free as
\* the schema leaves it
SlicedEdits(text) ==
  UNION {{[start |-> a, end |-> b, original |-> Slice(text, a, b), suggestion |-> g,
           type |-> t] : g \in SuggestionsFor(Slice(text, a, b)), t \in Types} :
         a \in 0..MaxText, b \in 0..(MaxText + 1)}

\* the runs whose edits all carry the slice at their hinted span
InitSliced ==
  /\ pc = "loop"
  /\ canonical \in Strs(ResolverChars, MaxText)
  /\ inputCorrs \in SeqsUpTo(SlicedEdits(canonical), MaxEdits)
  /\ byHint = tagAndSort(inputCorrs)
  /\ pos = 1
  /\ cursor = 0
  /\ out = <<>>
  /\ rows = <<>>
  /\ reindexed = 0
  /\ skipped = 0
  /\ totalDelta = 0
  /\ oversizedSplits = 0
  /\ cleaned = <<>>
  /\ metrics = NoMetrics
  /\ fnIn = <<>>
  /\ fnOut = <<>>
  /\ HandlerIdle

SpecSliced == InitSliced /\ [][Next]_vars

----------------------------------------------------------------------------
(* The pure functions on their own: Init draws the arguments, the action   *)
(* applies the function.                                                   *)

ResolverIdle ==
  /\ canonical = <<>>
  /\ inputCorrs = <<>>
  /\ byHint = <<>>
  /\ pos = 1
  /\ cursor = 0
  /\ out = <<>>
  /\ rows = <<>>
  /\ reindexed = 0
  /\ skipped = 0
  /\ totalDelta = 0
  /\ oversizedSplits = 0
  /\ cleaned = <<>>
  /\ metrics = NoMetrics

\* the characters given to the tokenizer: letters, a digit, a space, a
\* punctuation mark and the two halves of a surrogate pair
TokChars == Letters \cup Digits \cup Spaces \cup {"."} \cup HighSurr \cup LowSurr

InitTokenizer ==
  /\ pc = "tokenize"
  /\ fnIn \in Strs(TokChars, MaxTokLen)
  /\ fnOut = <<>>
  /\ ResolverIdle
  /\ HandlerIdle

TokenizeWithOffsets ==
  /\ pc = "tokenize"
  /\ fnOut' = tokenizeWithOffsets(fnIn)
  /\ pc' = "tokenized"
  /\ UNCHANGED <<fnIn, resolverVars, handlerVars>>

TokenizeUnicodeWords ==
  /\ pc = "tokenize"
  /\ fnOut' = tokenizeUnicodeWords(fnIn)
  /\ pc' = "tokenized"
  /\ UNCHANGED <<fnIn, resolverVars, handlerVars>>

NextTokenizer == TokenizeWithOffsets \/ TokenizeUnicodeWords

SpecTokenizer == InitTokenizer /\ [][NextTokenizer]_vars

\* the tokens given to lcsTokenMatches
LcsTokens == {<<"a">>, <<"b">>, <<" ">>}

InitLcs ==
  /\ pc = "lcs"
  /\ fnIn \in SeqsUpTo(LcsTokens, MaxSeq) \X SeqsUpTo(LcsTokens, MaxSeq)
  /\ fnOut = <<>>
  /\ ResolverIdle
  /\ HandlerIdle

\* lcsTokenMatches of api/check.ts
LcsTokenMatches ==
  /\ pc = "lcs"
  /\ fnOut' = lcsTokenMatches(fnIn[1], fnIn[2])
  /\ pc' = "lcsDone"
  /\ UNCHANGED <<fnIn, resolverVars, handlerVars>>

\* lcsTokenMatches of src/utils/text.ts
TextLcsTokenMatches ==
  /\ pc = "lcs"
  /\ fnOut' = textLcsTokenMatches(fnIn[1], fnIn[2])
  /\ pc' = "lcsDone"
  /\ UNCHANGED <<fnIn, resolverVars, handlerVars>>

NextLcs == LcsTokenMatches \/ TextLcsTokenMatches

SpecLcs == InitLcs /\ [][NextLcs]_vars

\* the characters of the edits given to splitOversized
SplitChars == {"a", "b", " "}

InitSplit ==
  /\ pc = "split"
  /\ fnIn \in {[start |-> s, end |-> s + Len(o), original |-> o, suggestion |-> g,
                 type |-> t] :
                s \in {0, 2}, o \in Strs(SplitChars, MaxSplitLen),
                g \in Strs(SplitChars, MaxSplitLen), t \in Types}
  /\ fnOut = <<>>
  /\ ResolverIdle
  /\ HandlerIdle

SplitOversized ==
  /\ pc = "split"
  /\ fnOut' = splitOversized(fnIn, opts)
  /\ pc' = "splitDone"
  /\ UNCHANGED <<fnIn, resolverVars, handlerVars>>

NextSplit == SplitOversized

SpecSplit == InitSplit /\ [][NextSplit]_vars

\* the characters of the texts given to diffTokensToHunks
DiffChars == {"a", "b", " "}

InitHunks ==
  /\ pc = "hunks"
  /\ fnIn \in Strs(DiffChars, MaxDiffLen) \X Strs(DiffChars, MaxDiffLen)
  /\ fnOut = <<>>
  /\ ResolverIdle
  /\ HandlerIdle

DiffTokensToHunks ==
  /\ pc = "hunks"
  /\ fnOut' = diffTokensToHunks(fnIn[1], fnIn[2])
  /\ pc' = "hunksDone"
  /\ UNCHANGED <<fnIn, resolverVars, handlerVars>>

NextHunks == DiffTokensToHunks

SpecHunks == InitHunks /\ [][NextHunks]_vars

\* the characters of the texts given to buildDiffHighlights: a letter and a
\* punctuation mark, which is a token of its own
HlChars == {"a", "."}
IssueOriginals == {<<>>, <<"a">>, <<".">>, <<"a", "a">>}
IssueTypes == {"grammar", "spelling"}

\* the issues given to buildDiffHighlights
Issues ==
  {[original |-> o, suggestion |-> <<"b">>, type |-> t] :
     o \in IssueOriginals, t \in IssueTypes}

InitHighlights ==
  /\ pc = "highlights"
  /\ fnIn \in {[original |-> o, corrected |-> c, issues |-> i] :
                o \in Strs(HlChars, MaxHlLen), c \in Strs(HlChars, MaxHlCorrected),
                i \in SeqsUpTo(Issues, MaxIssues)}
  /\ fnOut = <<>>
  /\ ResolverIdle
  /\ HandlerIdle

BuildDiffHighlights ==
  /\ pc = "highlights"
  /\ fnOut' = [result |-> buildDiffHighlights(fnIn.original, fnIn.corrected, fnIn.issues),
                hunkClaims |->
                  highlightLocals(fnIn.original, fnIn.corrected, fnIn.issues).hunkClaims,
                unplaced |->
                  highlightLocals(fnIn.original, fnIn.corrected, fnIn.issues).unplaced]
  /\ pc' = "highlightsDone"
  /\ UNCHANGED <<fnIn, resolverVars, handlerVars>>

NextHighlights == BuildDiffHighlights

SpecHighlights == InitHighlights /\ [][NextHighlights]_vars

\* the characters of the texts given to the builder over issue offsets
LiteChars == {"a", ".", " "}

\* the issues given to it: an offset in the source, one or two characters,
\* or an end before the start
IssuesLite ==
  {[start |-> se[1], end |-> se[1] + se[2], type |-> t] :
     se \in (0..(MaxLiteLen - 1)) \X {-1, 1}, t \in IssueTypes}

InitHighlightsByOffset ==
  /\ pc = "highlightsByOffset"
  /\ fnIn \in {[source |-> o, corrected |-> c, issuesInput |-> i] :
                o \in Strs(LiteChars, MaxLiteLen), c \in Strs(LiteChars, MaxLiteCorrected),
                i \in SeqsUpTo(IssuesLite, MaxIssues)}
  /\ fnOut = <<>>
  /\ ResolverIdle
  /\ HandlerIdle

BuildDiffHighlightsByOffset ==
  /\ pc = "highlightsByOffset"
  /\ fnOut' = buildDiffHighlightsByOffset(fnIn.source, fnIn.corrected, fnIn.issuesInput)
  /\ pc' = "highlightsByOffsetDone"
  /\ UNCHANGED <<fnIn, resolverVars, handlerVars>>

\* the two builders of highlight spans, each on its own inputs
InitSpanTypes == InitHighlights \/ InitHighlightsByOffset

NextSpanTypes == BuildDiffHighlights \/ BuildDiffHighlightsByOffset

SpecSpanTypes == InitSpanTypes /\ [][NextSpanTypes]_vars

\* the arguments given to approxLocalAlign on its own: the hint is a clamped
\* start, the thresholds are drawn so that each side of the gate decides
AlignChars == {"a", "b"}
AlignArgs ==
  {[text |-> t, needle |-> n, hintStart |-> h, w |-> w, levCutoff |-> lc,
    simNum |-> th[1], simDen |-> th[2]] :
     t \in Strs(AlignChars, MaxAlignText), n \in Strs(AlignChars, MaxAlignNeedle),
     h \in 0..MaxAlignText, w \in {1, 2}, lc \in {0, 1}, th \in {<<1, 2>>, <<4, 5>>}}

InitAlign ==
  /\ pc = "align"
  /\ fnIn \in {x \in AlignArgs : x.hintStart <= Len(x.text)}
  /\ fnOut = <<>>
  /\ ResolverIdle
  /\ HandlerIdle

ApproxLocalAlign ==
  /\ pc = "align"
  /\ fnOut' = approxLocalAlign(fnIn.text, fnIn.needle, fnIn.hintStart, fnIn.w,
                               fnIn.levCutoff, fnIn.simNum, fnIn.simDen)
  /\ pc' = "alignDone"
  /\ UNCHANGED <<fnIn, resolverVars, handlerVars>>

NextAlign == ApproxLocalAlign

SpecAlign == InitAlign /\ [][NextAlign]_vars

\* the accumulated lists given to the final pass on its own: pieces in any
\* order, overlapping or not, empty or not
FinalPieces ==
  {[start |-> a, end |-> b, original |-> o, idx |-> 0] :
     a \in 0..MaxPieceEnd, b \in 0..MaxPieceEnd, o \in {<<"a">>, <<"b">>}}

InitFinalPass ==
  /\ pc = "final"
  /\ fnIn \in SeqsUpTo({c \in FinalPieces : c.start <= c.end}, MaxPieces)
  /\ fnOut = <<>>
  /\ ResolverIdle
  /\ HandlerIdle

\* out.sort(...) and the loop that fills cleaned
FinalPass ==
  /\ pc = "final"
  /\ fnOut' = dropOverlaps(sortByStart(fnIn), 0, <<>>)
  /\ pc' = "finalDone"
  /\ UNCHANGED <<fnIn, resolverVars, handlerVars>>

NextFinalPass == FinalPass

SpecFinalPass == InitFinalPass /\ [][NextFinalPass]_vars

----------------------------------------------------------------------------
(* The request handler: validation of the request, the call to the        *)
(* upstream model with its single retry, and the response.  The two       *)
(* routes (the serverless handler and the Express route) share the call   *)
(* and the retry; the serverless handler also checks the method.          *)

\* longest input the handler accepts
MaxInputChars == 3000

\* fetchWithTimeout rejected: the timeout aborted the call, or the network failed
THROWN == NULL

\* Response.ok
ok(status) == status \in 200..299

\* the statuses after which the call is made again
RetryStatuses == {429, 500, 502, 503, 504}

\* the statuses the upstream answers with in the runs explored
UpstreamStatuses == {200, 400, 404, 429, 500, 502, 503, 504}

\* what one call to the upstream can end with
Outcomes == UpstreamStatuses \cup {THROWN}

\* what the body of an OK answer can be: not JSON, JSON the schema rejects,
\* edits whose spans assertSpans rejects, normalized not true, or acceptable
Bodies == {"notJson", "schemaInvalid", "badSpans", "notNormalized", "valid"}

Routes == {"vercel", "express"}

\* the requests explored: the Express route only sees POST
Requests ==
  {[route |-> rt, method |-> m, hasKey |-> k, length |-> n, blank |-> b] :
     rt \in Routes, m \in {"POST", "GET"}, k \in BOOLEAN,
     n \in {0, 1, MaxInputChars, MaxInputChars + 1}, b \in BOOLEAN}

reachesRoute(q) ==
  /\ (q.route = "express") => (q.method = "POST")
  /\ (q.length = 0) => q.blank

\* the status the validation of the request answers with, NULL when it passes
validate(q) ==
  IF q.route = "vercel" /\ q.method # "POST" THEN 405
  ELSE IF ~q.hasKey THEN 500
  ELSE IF q.blank THEN 400
  ELSE IF q.length > MaxInputChars THEN 413
  ELSE NULL

shouldRetry_anyError(status) == ~ok(status)

\* the condition of the retry
shouldRetry(status) == ~ok(status) /\ status \in RetryStatuses

\* the status answered for an OK answer of the upstream with the given body
respondTo(body) ==
  IF body = "notJson" THEN 500
  ELSE IF body = "schemaInvalid" THEN 502
  ELSE IF body = "badSpans" THEN 500
  ELSE IF body = "notNormalized" THEN 502
  ELSE 200

InitHandler ==
  /\ pc = "handler"
  /\ req \in {q \in Requests : reachesRoute(q)}
  /\ calls = <<>>
  /\ rLast = NULL
  /\ res = NULL
  /\ fnIn = <<>>
  /\ fnOut = <<>>
  /\ ResolverIdle

\* the checks made before the upstream is called
Validate ==
  /\ pc = "handler"
  /\ IF validate(req) # NULL
       THEN res' = validate(req) /\ pc' = "handlerDone"
       ELSE res' = res /\ pc' = "call"
  /\ UNCHANGED <<req, calls, rLast, fnIn, fnOut, resolverVars>>

\* let r = await call()
FirstCall ==
  /\ pc = "call"
  /\ \E o \in Outcomes :
       /\ calls' = Append(calls, o)
       /\ IF o = THROWN
            THEN rLast' = rLast /\ res' = 500 /\ pc' = "handlerDone"
            ELSE /\ rLast' = o
                 /\ res' = res
                 /\ pc' = IF shouldRetry(o) THEN "retry" ELSE "answer"
  /\ UNCHANGED <<req, fnIn, fnOut, resolverVars>>

\* the wait of 400 ms and r = await call()
Retry ==
  /\ pc = "retry"
  /\ \E o \in Outcomes :
       /\ calls' = Append(calls, o)
       /\ IF o = THROWN
            THEN rLast' = rLast /\ res' = 500 /\ pc' = "handlerDone"
            ELSE rLast' = o /\ res' = res /\ pc' = "answer"
  /\ UNCHANGED <<req, fnIn, fnOut, resolverVars>>

\* the rest of the handler: 502 for a non-OK r, else the body decides
Answer ==
  /\ pc = "answer"
  /\ IF ~ok(rLast)
       THEN res' = 502
       ELSE \E body \in Bodies : res' = respondTo(body)
  /\ pc' = "handlerDone"
  /\ UNCHANGED <<req, calls, rLast, fnIn, fnOut, resolverVars>>

NextHandler == Validate \/ FirstCall \/ Retry \/ Answer

SpecHandler == InitHandler /\ [][NextHandler]_vars

----------------------------------------------------------------------------
(* Properties of reindexCorrections *)

Methods == {"as-is", "window", "forward", "approx"}
\* the statuses of the rows of accepted edits, by what they say
StatusOf(m, adj, split) ==
  m \o (IF adj THEN "+adj" ELSE "") \o (IF split THEN "+split" ELSE "")
AdjStatuses == {StatusOf(m, TRUE, sp) : m \in Methods, sp \in BOOLEAN}
SplitStatuses == {StatusOf(m, adj, TRUE) : m \in Methods, adj \in BOOLEAN}
MethodStatuses(m) == {StatusOf(m, adj, sp) : adj \in BOOLEAN, sp \in BOOLEAN}
RowStatuses == {rows[k].status : k \in 1..Len(rows)}

\* the input indices of the edits accepted so far, and the rows of one edit
AcceptedIdx == {rows[k].i : k \in {j \in 1..Len(rows) : rows[j].status \notin SkipStatuses}}
SkipRowsOf(i) == {k \in 1..Len(rows) : rows[k].i = i /\ rows[k].status \in SkipStatuses}
PieceRowsOf(i) == {k \in 1..Len(rows) : rows[k].i = i /\ rows[k].status \notin SkipStatuses}

\* C1: every edit e of the cleaned list has canonical.slice(e.start, e.end)
\* equal to e.original, in bounds of the canonical text.
C1_CleanedSubstring ==
  pc = "done" =>
    \A k \in 1..Len(cleaned) :
      /\ Slice(canonical, cleaned[k].start, cleaned[k].end) = cleaned[k].original
      /\ cleaned[k].end - cleaned[k].start = Len(cleaned[k].original)

\* a run that returns an edit accepted as-is and the two pieces of a
\* relocated, split edit
C1_Witness ==
  /\ pc = "done"
  /\ Len(cleaned) = 3
  /\ "as-is" \in RowStatuses
  /\ RowStatuses \cap (SplitStatuses \ MethodStatuses("as-is")) # {}

\* C2: the cleaned list is sorted ascending by start and its spans do not
\* overlap: cleaned[i].end <= cleaned[i+1].start.
C2_CleanedSortedDisjoint ==
  pc = "done" =>
    \A k \in 1..(Len(cleaned) - 1) :
      /\ cleaned[k].start <= cleaned[k + 1].start
      /\ cleaned[k].end <= cleaned[k + 1].start

\* a run of two edits whose hinted spans overlap and that returns both
C2_Witness ==
  /\ pc = "done"
  /\ Len(inputCorrs) = 2
  /\ inputCorrs[1].start = inputCorrs[2].start
  /\ Len(cleaned) = 2
  /\ RowStatuses \cap AdjStatuses # {}

\* C3: every input edit is processed once and ends either accepted, with
\* its pieces in the accumulated output, or skipped with one of the three
\* skip statuses; skipped_count plus the number of accepted edits is total,
\* the number of input edits.
C3_EveryEditAcceptedOrSkipped ==
  pc \in {"loop", "done"} =>
    /\ \A k \in 1..Len(byHint) :
         LET i == byHint[k].idx IN
         IF k < pos
         THEN \/ Cardinality(SkipRowsOf(i)) = 1 /\ PieceRowsOf(i) = {}
              \/ SkipRowsOf(i) = {} /\ PieceRowsOf(i) # {}
         ELSE SkipRowsOf(i) = {} /\ PieceRowsOf(i) = {}
    /\ skipped + Cardinality(AcceptedIdx) = pos - 1
    /\ Len(out) = Cardinality({k \in 1..Len(rows) : rows[k].status \notin SkipStatuses})
    /\ \A k \in 1..Len(out) : out[k].idx \in AcceptedIdx
    /\ pc = "done" =>
         /\ pos = Len(inputCorrs) + 1
         /\ metrics.total = Len(inputCorrs)
         /\ metrics.skipped_count + Cardinality(AcceptedIdx) = metrics.total

\* a finished run with one edit skipped and one accepted
C3_Witness ==
  /\ pc = "done"
  /\ metrics.skipped_count = 1
  /\ Cardinality(AcceptedIdx) = 1
  /\ Len(inputCorrs) = 2

----------------------------------------------------------------------------
(* One iteration of the loop, seen from outside: the edit about to be      *)
(* processed, where its original occurs, and what the iteration adds.      *)

Processing == pc = "loop" /\ pos <= Len(byHint)
curEdit == byHint[pos]
curStart0 == Min(Max(curEdit.start, 0), Len(canonical))

\* the offsets i with lo <= i and i + Len(needle) <= hi where needle stands in text
Occurrences(text, needle, lo, hi) ==
  {i \in Max(lo, 0)..(Min(hi, Len(text)) - Len(needle)) :
     SubSeq(text, i + 1, i + Len(needle)) = needle}

AtHint == curStart0 \in Occurrences(canonical, curEdit.original, curStart0, Len(canonical))
InWindow == Occurrences(canonical, curEdit.original, curStart0 - Window, curStart0 + Window)
AtOrAfterCursor == Occurrences(canonical, curEdit.original, cursor, Len(canonical))

NewRows == SubSeq(rows', Len(rows) + 1, Len(rows'))
NewPieces == SubSeq(out', Len(out) + 1, Len(out'))

\* the iteration accepts the current edit at offset L with a status of
\* `statuses`: its pieces lie in [L, L + len), an unsplit edit is at L, and
\* the counters move by the distance between L and the hint
AcceptedAt(L, statuses) ==
  /\ Len(NewRows) >= 1
  /\ Len(NewPieces) = Len(NewRows)
  /\ \A k \in 1..Len(NewRows) :
       /\ NewRows[k].i = curEdit.idx
       /\ NewRows[k].status \in statuses
       /\ NewRows[k].start = NewPieces[k].start
       /\ NewRows[k].end = NewPieces[k].end
       /\ NewPieces[k].start >= L
       /\ NewPieces[k].end <= L + Len(curEdit.original)
       /\ NewPieces[k].original = curEdit.original => NewPieces[k].start = L
  /\ reindexed' = reindexed + (IF L # curStart0 THEN 1 ELSE 0)
  /\ totalDelta' = totalDelta + Abs(L - curStart0)
  /\ skipped' = skipped

\* the iteration skips the current edit with a status of `statuses`
SkippedWith(statuses) ==
  /\ Len(NewRows) = 1
  /\ NewRows[1].i = curEdit.idx
  /\ NewRows[1].status \in statuses
  /\ out' = out
  /\ cursor' = cursor
  /\ skipped' = skipped + 1
  /\ reindexed' = reindexed

\* the first strategy that succeeds for the current edit and the offset it
\* returns: <<method, offset>>, or <<"skipped", -1>> when none does
FirstStrategy ==
  IF AtHint THEN <<"as-is", curStart0>>
  ELSE IF Cardinality(InWindow) = 1 THEN <<"window", SetMin(InWindow)>>
  ELSE IF AtOrAfterCursor # {} THEN <<"forward", SetMin(AtOrAfterCursor)>>
  ELSE LET idx3 == approxLocalAlign(canonical, curEdit.original, curStart0,
                                    ApproxWindow, LevCutoff, SimNum, SimDen)
       IN IF idx3 >= 0 THEN <<"approx", idx3>> ELSE <<"skipped", -1>>

PlainStatuses(m) == {StatusOf(m, FALSE, sp) : sp \in BOOLEAN}
MovedStatuses(m) == {StatusOf(m, TRUE, sp) : sp \in BOOLEAN}

\* C4, as claimed: an edit whose original is not at its hint and occurs
\* more than once in the window around the hint is skipped.
C4_AmbiguousIsSkipped ==
  [][Processing /\ ~AtHint /\ Cardinality(InWindow) > 1 => SkippedWith(SkipStatuses)]_vars

\* C4, amended: for such an edit the window search returns no offset, none
\* of the occurrences is taken as a window match, and the edit goes on to
\* forward-greedy: it is accepted at the first occurrence at or after the
\* cursor, and skipped only when there is none.
C4_AmbiguousFallsToForward ==
  [][Processing /\ ~AtHint /\ Cardinality(InWindow) > 1 =>
       IF AtOrAfterCursor # {}
       THEN AcceptedAt(SetMin(AtOrAfterCursor), PlainStatuses("forward"))
       ELSE SkippedWith(SkipStatuses)]_vars

\* an edit whose original stands twice in the window and not at the hint
\* has been accepted by forward-greedy
C4_Witness ==
  /\ pc = "loop"
  /\ pos = 2
  /\ rows # <<>>
  /\ rows[1].status = "forward"
  /\ LET c == byHint[1]
         s0 == Min(c.start, Len(canonical))
     IN Cardinality(Occurrences(canonical, c.original, s0 - Window, s0 + Window)) > 1

\* C5, as claimed: the location used for an accepted edit is the one
\* returned by the first strategy, in the order exact-at-hint, windowed-unique,
\* forward-greedy, approximate, that succeeds.
C5_FirstStrategyIsUsed ==
  [][Processing =>
       \/ SkippedWith(SkipStatuses)
       \/ AcceptedAt(FirstStrategy[2], MethodStatuses(FirstStrategy[1]))]_vars

\* C5, amended: the strategies are tried in that order and the first that
\* succeeds names the method; its offset is the location used unless it lies
\* before the cursor, and then the overlap adjustment replaces it by the
\* first occurrence at or after the cursor (or the edit is skipped).
C5_FirstStrategyThenAdjust ==
  [][Processing =>
       LET m == FirstStrategy[1]
           L == FirstStrategy[2]
       IN IF m = "skipped" THEN SkippedWith({"skipped"})
          ELSE IF L >= cursor
          THEN \/ AcceptedAt(L, PlainStatuses(m))
               \/ m = "approx" /\ SkippedWith({"mismatch_after_reindex"})
          ELSE IF AtOrAfterCursor # {}
          THEN AcceptedAt(SetMin(AtOrAfterCursor), MovedStatuses(m))
          ELSE SkippedWith({"skipped_overlap"})]_vars

\* an edit found by the window search after an earlier edit was accepted
C5_Witness ==
  /\ pc = "loop"
  /\ pos = 3
  /\ Len(rows) = 2
  /\ rows[1].status = "as-is"
  /\ rows[2].status = "window"

\* C6: an edit whose original is not at the clamped hint and occurs exactly
\* once in the window, at or after the cursor, is accepted at that offset
\* and counted once in reindexed_count.
C6_WindowUniqueAccepted ==
  [][Processing /\ ~AtHint /\ Cardinality(InWindow) = 1 /\ SetMin(InWindow) >= cursor =>
       /\ AcceptedAt(SetMin(InWindow), PlainStatuses("window"))
       /\ reindexed' = reindexed + 1]_vars

\* a finished run that relocated its one edit by the window search
C6_Witness ==
  /\ pc = "done"
  /\ Len(rows) = 1
  /\ rows[1].status = "window"
  /\ metrics.reindexed_count = 1
  /\ Len(cleaned) = 1
  /\ cleaned[1].start # inputCorrs[1].start

\* C7: every accepted piece starts at or after the cursor held when its
\* edit is processed; an edit located before the cursor is placed again at
\* the first occurrence of its original at or after the cursor, and when
\* there is none it is skipped with skipped_overlap, cursor and output
\* unchanged.
C7_AcceptedAtOrAfterCursor ==
  [][Processing =>
       /\ \A k \in 1..Len(NewPieces) : NewPieces[k].start >= cursor
       /\ FirstStrategy[1] # "skipped" /\ FirstStrategy[2] < cursor =>
            IF AtOrAfterCursor # {}
            THEN AcceptedAt(SetMin(AtOrAfterCursor), AdjStatuses)
            ELSE SkippedWith({"skipped_overlap"})]_vars

\* an edit located before the cursor has been placed again after it
C7_Witness ==
  /\ pc = "loop"
  /\ pos = 3
  /\ Len(rows) = 2
  /\ rows[2].status \in AdjStatuses
  /\ rows[2].start >= rows[1].end
  /\ rows[2].start > byHint[2].start

\* an edit located before the cursor, with no occurrence after it, has
\* been skipped
C7_SkippedOverlapReached ==
  /\ pc = "loop"
  /\ pos = 3
  /\ rows[Len(rows)].status = "skipped_overlap"

----------------------------------------------------------------------------
(* Properties of the tokenizer, the LCS and the splitter *)

RECURSIVE Flatten(_)
Flatten(toks) == IF toks = <<>> THEN <<>> ELSE Head(toks).token \o Flatten(Tail(toks))

\* C8: the tokens of a string s partition it: the first starts at 0, each
\* starts where the one before ends, the last ends at len(s), each token's
\* text is s.slice(start, end), and the texts concatenated give s; the empty
\* string has no token.
C8_TokensPartition ==
  pc = "tokenized" =>
    /\ (fnOut = <<>>) <=> (fnIn = <<>>)
    /\ fnOut # <<>> => fnOut[1].start = 0 /\ fnOut[Len(fnOut)].end = Len(fnIn)
    /\ \A k \in 1..(Len(fnOut) - 1) : fnOut[k + 1].start = fnOut[k].end
    /\ \A k \in 1..Len(fnOut) :
         /\ fnOut[k].start < fnOut[k].end
         /\ fnOut[k].token = SubSeq(fnIn, fnOut[k].start + 1, fnOut[k].end)
    /\ Flatten(fnOut) = fnIn

\* a string of a letter, a space and a surrogate pair, tokenized
C8_Witness ==
  /\ pc = "tokenized"
  /\ fnIn = <<"a", " ", "H", "W">>
  /\ Len(fnOut) = 3
  /\ fnOut[3].start = 2
  /\ fnOut[3].end = 4

\* the subsequence of a at the indices of S, in order
RECURSIVE Pick(_, _, _)
Pick(a, S, k) ==
  IF k > Len(a) THEN <<>>
  ELSE (IF k \in S THEN <<a[k]>> ELSE <<>>) \o Pick(a, S, k + 1)

\* whether x is a subsequence of b[k..]
RECURSIVE IsSubseqFrom(_, _, _)
IsSubseqFrom(x, b, k) ==
  IF x = <<>> THEN TRUE
  ELSE IF k > Len(b) THEN FALSE
  ELSE IF Head(x) = b[k] THEN IsSubseqFrom(Tail(x), b, k + 1)
  ELSE IsSubseqFrom(x, b, k + 1)

\* C9: lcsTokenMatches returns a longest common subsequence: every pair
\* (i, j) has A[i] = B[j], the pairs increase strictly in both coordinates,
\* and no common subsequence of A and B is longer than the list returned.
C9_LcsIsLongest ==
  pc = "lcsDone" =>
    LET A == fnIn[1]
        B == fnIn[2]
    IN /\ \A k \in 1..Len(fnOut) :
            /\ fnOut[k][1] \in 0..(Len(A) - 1)
            /\ fnOut[k][2] \in 0..(Len(B) - 1)
            /\ A[fnOut[k][1] + 1] = B[fnOut[k][2] + 1]
       /\ \A k \in 1..(Len(fnOut) - 1) :
            /\ fnOut[k][1] < fnOut[k + 1][1]
            /\ fnOut[k][2] < fnOut[k + 1][2]
       /\ \A S \in SUBSET (1..Len(A)) :
            IsSubseqFrom(Pick(A, S, 1), B, 1) => Cardinality(S) <= Len(fnOut)

\* two sequences whose longest common subsequence leaves out the first
\* token of A although it occurs in B
C9_Witness ==
  /\ pc = "lcsDone"
  /\ Len(fnOut) = 2
  /\ fnOut[1][1] > 0
  /\ \E j \in 1..Len(fnIn[2]) : fnIn[2][j] = fnIn[1][1]

\* the whitespace-delimited words of s[k..], cur being the word begun
RECURSIVE SplitWords(_, _, _)
SplitWords(s, k, cur) ==
  IF k > Len(s) THEN (IF cur = <<>> THEN <<>> ELSE <<cur>>)
  ELSE IF s[k] \in Spaces
  THEN (IF cur = <<>> THEN <<>> ELSE <<cur>>) \o SplitWords(s, k + 1, <<>>)
  ELSE SplitWords(s, k + 1, Append(cur, s[k]))

\* C10: splitOversized returns [edit], the edit unchanged, whenever the
\* original has at most oversizedChars characters and at most oversizedWords
\* whitespace-delimited words; a token diff shows in the result only when
\* one of the two thresholds is exceeded.
C10_WithinThresholdsUnchanged ==
  pc = "splitDone" =>
    (/\ Len(fnIn.original) <= OversizedChars
     /\ Len(SplitWords(fnIn.original, 1, <<>>)) <= OversizedWords
     => fnOut = <<fnIn>>)

\* an edit of exactly oversizedChars characters and one word, whose token
\* diff would have changed it, returned as it is
C10_Witness ==
  /\ pc = "splitDone"
  /\ Len(fnIn.original) = OversizedChars
  /\ Len(SplitWords(fnIn.original, 1, <<>>)) = OversizedWords
  /\ splitPieces(fnIn) # <<fnIn>>
  /\ splitPieces(fnIn) # <<>>
  /\ fnOut = <<fnIn>>

----------------------------------------------------------------------------
(* Properties of splitOversized, continued *)

\* whether the edit exceeds one of the two thresholds
Oversized(c) ==
  Len(c.original) > OversizedChars \/ Len(SplitWords(c.original, 1, <<>>)) > OversizedWords

\* C11: every piece p returned for a parent edit lies inside the parent,
\* parent.start <= p.start <= p.end <= parent.end, its original is
\* parent.original.slice(p.start - parent.start, p.end - parent.start), and
\* the pieces are in ascending order with pieces[k].end <= pieces[k+1].start.
C11_PiecesInsideParent ==
  pc = "splitDone" =>
    /\ \A k \in 1..Len(fnOut) :
         /\ fnIn.start <= fnOut[k].start
         /\ fnOut[k].start <= fnOut[k].end
         /\ fnOut[k].end <= fnIn.end
         /\ fnOut[k].original =
              Slice(fnIn.original, fnOut[k].start - fnIn.start, fnOut[k].end - fnIn.start)
    /\ \A k \in 1..(Len(fnOut) - 1) :
         /\ fnOut[k].start <= fnOut[k + 1].start
         /\ fnOut[k].end <= fnOut[k + 1].start

\* a parent that does not start at 0 split into two pieces, the second of
\* them further inside the parent than the first
C11_Witness ==
  /\ pc = "splitDone"
  /\ fnIn.start > 0
  /\ Len(fnOut) >= 2
  /\ fnOut[1].start >= fnIn.start
  /\ fnOut[2].start > fnOut[1].end
  /\ fnOut[2].original # <<>>

\* whether every piece has a span of zero length
AllZeroSpan(pieces) == \A k \in 1..Len(pieces) : pieces[k].end = pieces[k].start

\* C12: splitOversized never returns an empty list, and when the token diff
\* of an oversized edit yields no sub-edit, or only sub-edits whose spans
\* all have zero length, the result is the single unsplit edit; a result
\* other than the unsplit edit has a piece of non-zero span.
C12_NeverEmpty ==
  pc = "splitDone" =>
    /\ Len(fnOut) >= 1
    /\ (Oversized(fnIn) /\ AllZeroSpan(splitPieces(fnIn))) => fnOut = <<fnIn>>
    /\ fnOut # <<fnIn>> => ~AllZeroSpan(fnOut)

\* an oversized edit whose token diff is one insertion, a sub-edit of
\* zero span, returned unsplit
C12_Witness ==
  /\ pc = "splitDone"
  /\ Oversized(fnIn)
  /\ Len(splitPieces(fnIn)) >= 1
  /\ AllZeroSpan(splitPieces(fnIn))
  /\ fnOut = <<fnIn>>

\* an oversized edit whose token diff yields no sub-edit, returned unsplit
C12_WitnessNoSubEdit ==
  /\ pc = "splitDone"
  /\ Oversized(fnIn)
  /\ splitPieces(fnIn) = <<>>
  /\ fnOut = <<fnIn>>

\* original with every piece's span replaced by the piece's suggestion;
\* at is the offset in original up to which the text is already copied
RECURSIVE ApplyPieces(_, _, _, _)
ApplyPieces(original, parentStart, pieces, at) ==
  IF pieces = <<>> THEN Slice(original, at, Len(original))
  ELSE Slice(original, at, Head(pieces).start - parentStart)
       \o Head(pieces).suggestion
       \o ApplyPieces(original, parentStart, Tail(pieces), Head(pieces).end - parentStart)

\* C13 as claimed: the ranges of two or more pieces together cover the
\* whole range [parent.start, parent.end).
C13_PiecesCoverParent ==
  (pc = "splitDone" /\ Len(fnOut) >= 2) =>
    /\ fnOut[1].start = fnIn.start
    /\ fnOut[Len(fnOut)].end = fnIn.end
    /\ \A k \in 1..(Len(fnOut) - 1) : fnOut[k].end = fnOut[k + 1].start

\* C13: the pieces cover the stretches of the parent that the token diff
\* leaves unmatched, and only those: what lies in [parent.start, parent.end)
\* outside every piece is text that original and suggestion share, so
\* replacing each piece's span in parent.original by the piece's suggestion
\* gives parent.suggestion.
C13_PiecesCoverChanges ==
  pc = "splitDone" =>
    ApplyPieces(fnIn.original, fnIn.start, fnOut, 0) = fnIn.suggestion

\* two pieces with a matched token of the parent between them, which
\* belongs to neither
C13_Witness ==
  /\ pc = "splitDone"
  /\ Len(fnOut) >= 2
  /\ fnOut[1].end < fnOut[2].start
  /\ fnOut[1].start = fnIn.start
  /\ fnOut[Len(fnOut)].end = fnIn.end

----------------------------------------------------------------------------
(* Properties of diffTokensToHunks *)

\* the token texts of the two sides of the diff
TokensA == tokenTexts(tokenizeUnicodeWords(fnIn[1]))
TokensB == tokenTexts(tokenizeUnicodeWords(fnIn[2]))

\* C14: the ordered hunks cover both token sequences with no gap and no
\* overlap: the first hunk has aStart = 0 and bStart = 0, each hunk starts
\* on both sides where the previous one ends, and the last hunk ends at the
\* token counts of before and after; with no hunk at all both counts are 0.
C14_HunksCoverTokens ==
  pc = "hunksDone" =>
    IF fnOut = <<>> THEN Len(TokensA) = 0 /\ Len(TokensB) = 0
    ELSE /\ fnOut[1].aStart = 0
         /\ fnOut[1].bStart = 0
         /\ \A k \in 1..Len(fnOut) :
              fnOut[k].aStart <= fnOut[k].aEnd /\ fnOut[k].bStart <= fnOut[k].bEnd
         /\ \A k \in 1..(Len(fnOut) - 1) :
              /\ fnOut[k + 1].aStart = fnOut[k].aEnd
              /\ fnOut[k + 1].bStart = fnOut[k].bEnd
         /\ fnOut[Len(fnOut)].aEnd = Len(TokensA)
         /\ fnOut[Len(fnOut)].bEnd = Len(TokensB)

\* a change, a run of equal tokens and a change at the tail, three hunks
\* that share the tokens of both sides
C14_Witness ==
  /\ pc = "hunksDone"
  /\ Len(fnOut) >= 3
  /\ fnOut[1].kind # "equal"
  /\ fnOut[2].kind = "equal"
  /\ fnOut[3].kind # "equal"
  /\ fnOut[3].aEnd > fnOut[3].aStart

\* whether hunk h is a run of matched pairs: as long on both sides, not
\* empty, and made of pairs that lcsTokenMatches returned
IsMatchedRun(h, matches) ==
  /\ h.aEnd > h.aStart
  /\ h.aEnd - h.aStart = h.bEnd - h.bStart
  /\ \A t \in 0..(h.aEnd - h.aStart - 1) :
       /\ TokensA[h.aStart + t + 1] = TokensB[h.bStart + t + 1]
       /\ \E m \in 1..Len(matches) : matches[m] = <<h.aStart + t, h.bStart + t>>

\* whether no token of hunk h is in a pair that lcsTokenMatches returned
IsUnmatched(h, matches) ==
  \A m \in 1..Len(matches) :
    /\ ~(h.aStart <= matches[m][1] /\ matches[m][1] < h.aEnd)
    /\ ~(h.bStart <= matches[m][2] /\ matches[m][2] < h.bEnd)

\* C15: a hunk is replace exactly when both its ranges are non-empty and
\* unmatched, remove exactly when only its before-range is non-empty,
\* insert exactly when only its after-range is non-empty, and equal
\* exactly when it is a run of matched token pairs as long on both sides;
\* no hunk is empty on both sides and no two adjacent hunks are both equal.
C15_HunkKinds ==
  pc = "hunksDone" =>
    LET matches == textLcsTokenMatches(TokensA, TokensB) IN
    /\ \A k \in 1..Len(fnOut) :
         LET h == fnOut[k] IN
         /\ h.kind \in {"equal", "remove", "insert", "replace"}
         /\ h.aEnd > h.aStart \/ h.bEnd > h.bStart
         /\ h.kind = "equal" <=> IsMatchedRun(h, matches)
         /\ h.kind # "equal" => IsUnmatched(h, matches)
         /\ h.kind = "replace" <=>
              (h.aEnd > h.aStart /\ h.bEnd > h.bStart /\ ~IsMatchedRun(h, matches))
         /\ h.kind = "remove" <=> (h.aEnd > h.aStart /\ h.bEnd = h.bStart)
         /\ h.kind = "insert" <=> (h.aEnd = h.aStart /\ h.bEnd > h.bStart)
    /\ \A k \in 1..(Len(fnOut) - 1) :
         ~(fnOut[k].kind = "equal" /\ fnOut[k + 1].kind = "equal")

\* an equal hunk merged from two matched pairs, followed by a replace
C15_Witness ==
  /\ pc = "hunksDone"
  /\ \E k \in 1..(Len(fnOut) - 1) :
       /\ fnOut[k].kind = "equal"
       /\ fnOut[k].aEnd - fnOut[k].aStart >= 2
       /\ fnOut[k + 1].kind = "replace"

\* a remove hunk and an insert hunk in one diff
C15_RemoveAndInsertReached ==
  /\ pc = "hunksDone"
  /\ \E k \in 1..Len(fnOut) : fnOut[k].kind = "remove"
  /\ \E k \in 1..Len(fnOut) : fnOut[k].kind = "insert"

----------------------------------------------------------------------------
(* Properties of buildDiffHighlights *)

HlDone == pc = "highlightsDone"

\* the remove and replace hunks of the diff, in order
ChangedHunks ==
  SelectSeq(diffTokensToHunks(fnIn.original, fnIn.corrected),
            LAMBDA h : h.kind \in {"remove", "replace"})

\* C16: the highlight spans come only from remove and replace hunks, one
\* span for each of them in order, with the hunk's before-side character
\* offsets; each span is non-empty and lies inside [0, len(before)], the
\* starts are strictly increasing and no span overlaps the next.
C16_SpansFromChangedHunks ==
  HlDone =>
    LET spans == fnOut.result.spans IN
    /\ Len(spans) = Len(ChangedHunks)
    /\ \A k \in 1..Len(spans) :
         /\ spans[k].start = ChangedHunks[k].aStartOffset
         /\ spans[k].end = ChangedHunks[k].aEndOffset
         /\ 0 <= spans[k].start
         /\ spans[k].start < spans[k].end
         /\ spans[k].end <= Len(fnIn.original)
         /\ fnOut.result.hunkRanges[k] = [start |-> spans[k].start, end |-> spans[k].end]
    /\ \A k \in 1..(Len(spans) - 1) :
         /\ spans[k].start < spans[k + 1].start
         /\ spans[k].end <= spans[k + 1].start

\* two spans out of a diff that also has hunks of other kinds
C16_Witness ==
  /\ HlDone
  /\ Len(fnOut.result.spans) >= 2
  /\ fnOut.result.diagnostics.totalHunks > Len(fnOut.result.spans)
  /\ fnOut.result.spans[2].end = Len(fnIn.original)

\* the offsets in span range r at which needle occurs fully inside r
OccIn(r, needle) ==
  {p \in r.start..(r.end - Len(needle)) :
     SubSeq(fnIn.original, p + 1, p + Len(needle)) = needle}

\* the spans (1-based) in whose range needle occurs
SpansWith(needle) ==
  {h \in 1..Len(fnOut.result.hunkRanges) : OccIn(fnOut.result.hunkRanges[h], needle) # {}}

\* whether issue i (1-based) is attached, and the reasons it is unplaced with
Attached(i) == fnOut.result.issueToHunk[i] # NULL
ReasonsOf(i) ==
  {fnOut.unplaced[u].reason : u \in {v \in 1..Len(fnOut.unplaced) : fnOut.unplaced[v].index = i - 1}}

\* the claims made in span h by the issues before issue i, and by issue i
EarlierClaims(i, h) ==
  {fnOut.hunkClaims[h][k] :
     k \in {j \in 1..Len(fnOut.hunkClaims[h]) : fnOut.result.hunkToIssues[h][j] < i - 1}}
ClaimsOf(i, h) ==
  {fnOut.hunkClaims[h][k] :
     k \in {j \in 1..Len(fnOut.hunkClaims[h]) : fnOut.result.hunkToIssues[h][j] = i - 1}}

\* the occurrences of needle in span h that overlap no claim made before issue i
FreeOcc(i, h, needle) ==
  {p \in OccIn(fnOut.result.hunkRanges[h], needle) :
     \A c \in EarlierClaims(i, h) : ~(Max(c.start, p) < Min(c.end, p + Len(needle)))}

\* C17 as claimed: an edit whose original, not empty, appears twice inside
\* one span's range is unplaced as ambiguous and attached to none of the
\* occurrences.
C17_TwiceInSpanIsUnplaced ==
  HlDone =>
    \A i \in 1..Len(fnIn.issues) : \A h \in 1..Len(fnOut.result.hunkRanges) :
      (/\ fnIn.issues[i].original # <<>>
       /\ Cardinality(OccIn(fnOut.result.hunkRanges[h], fnIn.issues[i].original)) >= 2) =>
        /\ ~Attached(i)
        /\ ReasonsOf(i) \in {{"ambiguous_multiple_hunks"}, {"ambiguous_claimed"}}

\* C17: an edit whose non-empty original appears twice or more inside one
\* span's range, and in no other span, is attached to that span and claims
\* the leftmost occurrence that overlaps no claim of an earlier edit; it is
\* unplaced, with reason ambiguous_claimed, only when every occurrence
\* overlaps an earlier claim, and with reason ambiguous_multiple_hunks when
\* the original also occurs in another span.
C17_TwiceInSpanTakesFirstUnclaimed ==
  HlDone =>
    \A i \in 1..Len(fnIn.issues) : \A h \in 1..Len(fnOut.result.hunkRanges) :
      LET needle == fnIn.issues[i].original IN
      (needle # <<>> /\ Cardinality(OccIn(fnOut.result.hunkRanges[h], needle)) >= 2) =>
        IF SpansWith(needle) # {h}
        THEN ~Attached(i) /\ ReasonsOf(i) = {"ambiguous_multiple_hunks"}
        ELSE IF FreeOcc(i, h, needle) = {}
        THEN ~Attached(i) /\ ReasonsOf(i) = {"ambiguous_claimed"}
        ELSE /\ fnOut.result.issueToHunk[i] = h - 1
             /\ ReasonsOf(i) = {}
             /\ ClaimsOf(i, h) =
                  {[start |-> SetMin(FreeOcc(i, h, needle)),
                    end |-> SetMin(FreeOcc(i, h, needle)) + Len(needle)]}

\* two edits with the same original, which appears twice in one span: the
\* first claims the first occurrence, the second the second occurrence
C17_Witness ==
  /\ HlDone
  /\ \E i \in 1..Len(fnIn.issues) : \E h \in 1..Len(fnOut.result.hunkRanges) :
       /\ Cardinality(OccIn(fnOut.result.hunkRanges[h], fnIn.issues[i].original)) >= 2
       /\ fnOut.result.issueToHunk[i] = h - 1
       /\ EarlierClaims(i, h) # {}
       /\ \E c \in ClaimsOf(i, h) :
            c.start > SetMin(OccIn(fnOut.result.hunkRanges[h], fnIn.issues[i].original))

\* an edit unplaced because every occurrence in its span is claimed
C17_AmbiguousClaimedReached ==
  /\ HlDone
  /\ \E i \in 1..Len(fnIn.issues) : ReasonsOf(i) = {"ambiguous_claimed"}

\* C18 as claimed, for every edit: attached only if the original occurs
\* in exactly one span, no_matching_hunk if it occurs in no span, and
\* unplaced as ambiguous if it occurs in more than one.
C18_AttachedIffOneSpan ==
  HlDone =>
    \A i \in 1..Len(fnIn.issues) :
      LET inSpans == SpansWith(fnIn.issues[i].original) IN
      /\ Attached(i) =>
           inSpans = {fnOut.result.issueToHunk[i] + 1}
      /\ inSpans = {} => (~Attached(i) /\ ReasonsOf(i) = {"no_matching_hunk"})
      /\ Cardinality(inSpans) > 1 =>
           (~Attached(i) /\ ReasonsOf(i) = {"ambiguous_multiple_hunks"})

\* C18: an edit is attached to a span only if its original is not empty
\* and occurs, fully inside the span's character range, in exactly one
\* span; a non-empty original that occurs in no span is unplaced with
\* reason no_matching_hunk, one that occurs in more than one span is
\* unplaced with reason ambiguous_multiple_hunks and attached to none of
\* them, and an empty original is unplaced with reason empty_original
\* whatever the spans.
C18_NonEmptyAttachedIffOneSpan ==
  HlDone =>
    \A i \in 1..Len(fnIn.issues) :
      LET needle == fnIn.issues[i].original
          inSpans == SpansWith(needle)
      IN /\ Attached(i) =>
              (needle # <<>> /\ inSpans = {fnOut.result.issueToHunk[i] + 1})
         /\ (needle # <<>> /\ inSpans = {}) =>
              (~Attached(i) /\ ReasonsOf(i) = {"no_matching_hunk"})
         /\ (needle # <<>> /\ Cardinality(inSpans) > 1) =>
              (~Attached(i) /\ ReasonsOf(i) = {"ambiguous_multiple_hunks"})
         /\ needle = <<>> => (~Attached(i) /\ ReasonsOf(i) = {"empty_original"})
         /\ ~Attached(i) => Cardinality(ReasonsOf(i)) = 1
         /\ \A h \in 1..Len(fnOut.result.hunkToIssues) :
              (\E k \in 1..Len(fnOut.result.hunkToIssues[h]) :
                 fnOut.result.hunkToIssues[h][k] = i - 1)
              <=> fnOut.result.issueToHunk[i] = h - 1

\* one run with an edit found in two spans and attached to neither, an
\* edit found in no span, and an edit attached to the one span it is in
C18_Witness ==
  /\ HlDone
  /\ Len(fnOut.result.hunkRanges) >= 2
  /\ \E i \in 1..Len(fnIn.issues) :
       Cardinality(SpansWith(fnIn.issues[i].original)) > 1
       /\ ReasonsOf(i) = {"ambiguous_multiple_hunks"}
  /\ \E i \in 1..Len(fnIn.issues) :
       fnIn.issues[i].original # <<>> /\ ReasonsOf(i) = {"no_matching_hunk"}
  /\ \E i \in 1..Len(fnIn.issues) : Attached(i)

----------------------------------------------------------------------------
(* Properties of the span types of the two builders *)

HlByOffsetDone == pc = "highlightsByOffsetDone"

\* the types of the issues attached to span h (1-based), in attachment
\* order: the issues are fnIn.issues for the builder over originals, and
\* the normalized issues for the builder over offsets
AttachedTypes(h) ==
  IF HlDone
  THEN [k \in 1..Len(fnOut.result.hunkToIssues[h]) |->
          fnIn.issues[fnOut.result.hunkToIssues[h][k] + 1].type]
  ELSE [k \in 1..Len(fnOut.hunkToIssues[h]) |->
          fnOut.issues[fnOut.hunkToIssues[h][k] + 1].type]

\* how often type t is among types, and the most frequent types
TimesIn(types, t) == Cardinality({k \in 1..Len(types) : types[k] = t})
MostFrequent(types) ==
  {t \in {types[k] : k \in 1..Len(types)} :
     \A k \in 1..Len(types) : TimesIn(types, t) >= TimesIn(types, types[k])}

\* the spans of the run that has ended
SpansOut == IF HlDone THEN fnOut.result.spans ELSE fnOut.spans

\* C19 as claimed: each span's category is a most frequent category among
\* the edits attached to it, and other when no edit is attached.
C19_SpanTypeIsMajority ==
  (HlDone \/ HlByOffsetDone) =>
    \A h \in 1..Len(SpansOut) :
      IF AttachedTypes(h) = <<>> THEN SpansOut[h].type = "other"
      ELSE SpansOut[h].type \in MostFrequent(AttachedTypes(h))

\* the position of type t in the order of the keys of counts
TypeRank(t) == CHOOSE k \in 1..Len(IssueTypeOrder) : IssueTypeOrder[k] = t

\* C19: a span's category is other when no edit is attached to it; with
\* edits attached, the builder over originals (chooseSpanType) gives it the
\* type of the first edit attached, whatever the types of the others, and
\* the builder over offsets (chooseHunkType) gives it the most frequent
\* type among the edits attached, the earliest in the order spelling,
\* grammar, punctuation, agreement, accent, diacritic, other on ties.
C19_SpanTypeFirstOrMostFrequent ==
  /\ HlDone =>
       \A h \in 1..Len(SpansOut) :
         SpansOut[h].type =
           IF AttachedTypes(h) = <<>> THEN "other" ELSE AttachedTypes(h)[1]
  /\ HlByOffsetDone =>
       /\ Len(SpansOut) = Len(fnOut.hunkRanges)
       /\ \A h \in 1..Len(SpansOut) :
            IF AttachedTypes(h) = <<>> THEN SpansOut[h].type = "other"
            ELSE /\ SpansOut[h].type \in MostFrequent(AttachedTypes(h))
                 /\ \A t \in MostFrequent(AttachedTypes(h)) :
                      TypeRank(SpansOut[h].type) <= TypeRank(t)

\* the builder over originals with three edits attached to one span, the
\* first of a type and the two others of another: the span has the type of
\* the first
C19_Witness ==
  /\ HlDone
  /\ \E h \in 1..Len(SpansOut) :
       /\ Len(AttachedTypes(h)) = 3
       /\ AttachedTypes(h)[2] = AttachedTypes(h)[3]
       /\ AttachedTypes(h)[1] # AttachedTypes(h)[2]
       /\ SpansOut[h].type = AttachedTypes(h)[1]

\* the builder over offsets with three edits attached to one span, the
\* first of a type and the two others of another: the span has the type of
\* the two
C19_MajorityReached ==
  /\ HlByOffsetDone
  /\ \E h \in 1..Len(SpansOut) :
       /\ Len(AttachedTypes(h)) = 3
       /\ AttachedTypes(h)[2] = AttachedTypes(h)[3]
       /\ AttachedTypes(h)[1] # AttachedTypes(h)[2]
       /\ SpansOut[h].type = AttachedTypes(h)[2]

\* the handler has answered
HandlerDone == pc = "handlerDone"

C20_RetrySucceeded ==
  /\ HandlerDone
  /\ Len(calls) = 2
  /\ ok(calls[2])
  /\ res = 200

----------------------------------------------------------------------------
(* Properties of the resolver's cursor, final pass and output *)

\* C21: during a run of reindexCorrections the cursor starts at 0 and never
\* decreases; it changes only in a step that appends pieces, and then it is
\* the end of the last piece appended.
C21_CursorMonotonic ==
  /\ (pc = "loop" => cursor = 0)
  /\ [][pc = "loop" =>
          /\ cursor' >= cursor
          /\ cursor' # cursor =>
               /\ Len(out') > Len(out)
               /\ cursor' = out'[Len(out')].end]_vars

\* two edits have been accepted and the cursor stands at the end of the
\* second, beyond the end of the first
C21_Witness ==
  /\ pc = "loop"
  /\ pos = 3
  /\ Len(out) = 2
  /\ out[1].end > 0
  /\ out[2].end > out[1].end
  /\ cursor = out[2].end

\* the end of the last piece kept before position k of the sorted list, 0
\* when none was kept, and whether the piece at position k is kept
RECURSIVE LastKeptEnd(_, _)
RECURSIVE KeptAt(_, _)
LastKeptEnd(sorted, k) ==
  IF k = 1 THEN 0
  ELSE IF KeptAt(sorted, k - 1) THEN sorted[k - 1].end
  ELSE LastKeptEnd(sorted, k - 1)
KeptAt(sorted, k) ==
  ~(sorted[k].start < LastKeptEnd(sorted, k) \/ sorted[k].end <= sorted[k].start)

FinalPassDone == pc = "finalDone"
SortedPieces == sortByStart(fnIn)
KeptIdx == {k \in 1..Len(SortedPieces) : KeptAt(SortedPieces, k)}
NthKept(j) == CHOOSE k \in KeptIdx : Cardinality({i \in KeptIdx : i < k}) = j - 1

\* C22: the final pass keeps or drops whole pieces: every cleaned edit is one
\* of the accumulated pieces, unchanged; walking the pieces in ascending
\* start order a piece is dropped exactly when it starts before the end of
\* the previously kept piece or its span is empty; and a piece dropped for a
\* conflict conflicts with a kept piece that starts no later.
C22_FinalPassKeepsOrDrops ==
  FinalPassDone =>
    /\ \A j \in 1..Len(fnOut) : \E k \in 1..Len(fnIn) : fnOut[j] = fnIn[k]
    /\ Len(fnOut) = Cardinality(KeptIdx)
    /\ \A j \in 1..Len(fnOut) : fnOut[j] = SortedPieces[NthKept(j)]
    /\ \A k \in 1..Len(SortedPieces) :
         SortedPieces[k].start < LastKeptEnd(SortedPieces, k) =>
           \E j \in 1..Len(fnOut) :
             /\ fnOut[j].start <= SortedPieces[k].start
             /\ SortedPieces[k].start < fnOut[j].end

\* of three pieces given out of order, one was dropped for a conflict with
\* an earlier-starting piece, one for its empty span, and one was kept
C22_Witness ==
  /\ FinalPassDone
  /\ Len(fnIn) = 3
  /\ fnIn[1].start > fnIn[2].start
  /\ Len(fnOut) = 1
  /\ \E k \in 1..3 : fnIn[k].end = fnIn[k].start
  /\ \E k \in 1..3 : /\ fnIn[k].end > fnIn[k].start
                     /\ fnIn[k].start > fnOut[1].start
                     /\ fnIn[k].start < fnOut[1].end

----------------------------------------------------------------------------
(* Properties of approxLocalAlign *)

\* the edit distance of two strings, by its recurrence
RECURSIVE EditDistance(_, _)
EditDistance(x, y) ==
  IF x = <<>> THEN Len(y)
  ELSE IF y = <<>> THEN Len(x)
  ELSE IF Head(x) = Head(y) THEN EditDistance(Tail(x), Tail(y))
  ELSE 1 + Min3(EditDistance(Tail(x), y), EditDistance(x, Tail(y)),
                EditDistance(Tail(x), Tail(y)))

AlignDone == pc = "alignDone"
\* the positions the loop visits
AlignPositions ==
  LET a == Max(0, Min(Len(fnIn.text), fnIn.hintStart - fnIn.w))
      b == Max(0, Min(Len(fnIn.text), fnIn.hintStart + fnIn.w))
  IN a..Max(a, Min(b, Len(fnIn.text) - Len(fnIn.needle)))
CandAt(i) == Slice(fnIn.text, i, i + Len(fnIn.needle))
DistAt(i) == EditDistance(fnIn.needle, CandAt(i))
\* the similarity at i is 1 - DistAt(i) / DenAt(i)
DenAt(i) == Max(1, Max(Len(fnIn.needle), Len(CandAt(i))))
SimAtLeast(i, num, den) == (DenAt(i) - DistAt(i)) * den >= num * DenAt(i)
SimGeq(i, j) == (DenAt(i) - DistAt(i)) * DenAt(j) >= (DenAt(j) - DistAt(j)) * DenAt(i)
PassesGate(i) == DistAt(i) <= fnIn.levCutoff \/ SimAtLeast(i, fnIn.simNum, fnIn.simDen)
Passing == {i \in AlignPositions : PassesGate(i)}

\* C23: approxLocalAlign returns, among the positions of the window whose
\* candidate passes the gate (distance <= levCutoff or similarity >=
\* simThreshold), the one of highest similarity, the leftmost on ties, and
\* -1 when no position passes the gate.
C23_BestPassingLeftmost ==
  AlignDone =>
    IF Passing = {} THEN fnOut = -1
    ELSE /\ fnOut \in Passing
         /\ \A j \in Passing :
              /\ SimGeq(fnOut, j)
              /\ SimGeq(j, fnOut) => fnOut <= j

\* three positions pass the gate; the two to the right have the highest
\* similarity, and the left one of these two is returned
C23_Witness ==
  /\ AlignDone
  /\ Cardinality(Passing) >= 3
  /\ fnOut \in Passing
  /\ \E j \in Passing : j < fnOut /\ ~SimGeq(j, fnOut)
  /\ \E j \in Passing : j > fnOut /\ SimGeq(j, fnOut)

\* the position returned passes the gate by its similarity only, and
\* another position does not pass
C23_SimilarityOnlyReached ==
  /\ AlignDone
  /\ fnOut \in Passing
  /\ DistAt(fnOut) > fnIn.levCutoff
  /\ AlignPositions \ Passing # {}

\* positions are visited and none passes the gate
C23_NonePassesReached ==
  /\ AlignDone
  /\ Cardinality(AlignPositions) >= 2
  /\ fnIn.needle # <<>>
  /\ fnOut = -1

----------------------------------------------------------------------------
(* Properties of the resolver's output *)

\* C24: the span guard the handler applies to the resolver's output never
\* fails: every cleaned edit has 0 <= start <= end <= len(canonical), the
\* cleaned spans do not overlap, and assertSpans returns.
C24_GuardNeverFails ==
  pc = "done" =>
    /\ \A k \in 1..Len(cleaned) :
         /\ 0 <= cleaned[k].start
         /\ cleaned[k].start <= cleaned[k].end
         /\ cleaned[k].end <= Len(canonical)
    /\ \A j, k \in 1..Len(cleaned) :
         j # k => \/ cleaned[j].end <= cleaned[k].start
                  \/ cleaned[k].end <= cleaned[j].start
    /\ assertSpans(cleaned, Len(canonical)) = "ok"

\* a run returns two edits, one of them hinted beyond the end of the text,
\* and skips nothing
C24_Witness ==
  /\ pc = "done"
  /\ Len(cleaned) = 2
  /\ \E k \in 1..2 : inputCorrs[k].start + Len(inputCorrs[k].original) > Len(canonical)
  /\ cleaned[2].end = Len(canonical)
  /\ metrics.skipped_count = 0

\* the current edit reaches the approximate alignment: its original is not
\* at the hint, has no unique occurrence in the window, and does not occur
\* at or after the cursor
ReachesApprox ==
  /\ Processing
  /\ ~AtHint
  /\ Cardinality(InWindow) # 1
  /\ AtOrAfterCursor = {}

\* C25: an edit that reaches the approximate alignment is never accepted:
\* whatever position approxLocalAlign returns, the edit is skipped with
\* skipped, skipped_overlap or mismatch_after_reindex, nothing is appended
\* to the output, and no row or cleaned edit carries the method approx.
C25_ApproxNeverAccepted ==
  /\ [](RowStatuses \cap MethodStatuses("approx") = {})
  /\ [][ReachesApprox =>
          /\ SkippedWith(SkipStatuses)
          /\ FirstStrategy[1] = "approx" =>
               SkippedWith({"skipped_overlap", "mismatch_after_reindex"})]_vars

\* approxLocalAlign returned a position at or after the cursor for the
\* second edit and the sanity check rejected it
C25_Witness ==
  /\ pc = "loop"
  /\ pos = 3
  /\ Len(rows) = 2
  /\ rows[1].status \notin SkipStatuses
  /\ rows[1].end > 0
  /\ rows[2].status = "mismatch_after_reindex"

\* approxLocalAlign returned an exact occurrence before the cursor for the
\* second edit, and the edit was skipped for its overlap
C25_ExactBeforeCursorReached ==
  /\ pc = "loop"
  /\ pos = 3
  /\ Len(rows) = 2
  /\ rows[1].status \notin SkipStatuses
  /\ rows[2].status = "skipped_overlap"
  /\ LET c == byHint[2]
         s0 == Min(c.start, Len(canonical))
         idx3 == approxLocalAlign(canonical, c.original, s0, ApproxWindow,
                                  LevCutoff, SimNum, SimDen)
     IN /\ Slice(canonical, s0, s0 + Len(c.original)) # c.original
        /\ Cardinality(Occurrences(canonical, c.original, s0 - Window, s0 + Window)) # 1
        /\ Occurrences(canonical, c.original, rows[1].end, Len(canonical)) = {}
        /\ idx3 >= 0
        /\ Slice(canonical, idx3, idx3 + Len(c.original)) = c.original

\* the pieces of positive length, in their order
NonEmptyPieces(pieces) == SelectSeq(pieces, LAMBDA c : c.end > c.start)

\* C26: the list accumulated by the main loop is in ascending order and its
\* pieces do not overlap, so the final pass removes the zero-length pieces
\* and nothing else: the cleaned list is the accumulated list without them.
C26_FinalPassDropsOnlyEmpty ==
  /\ pc \in {"loop", "done"} =>
       /\ \A k \in 1..Len(out) : out[k].start <= out[k].end
       /\ \A k \in 1..(Len(out) - 1) :
            /\ out[k].start <= out[k + 1].start
            /\ out[k].end <= out[k + 1].start
  /\ pc = "done" =>
       /\ cleaned = NonEmptyPieces(out)
       /\ \A k \in 1..Len(cleaned) : cleaned[k].end > cleaned[k].start

\* a finished run accumulated the pieces of a split edit and a zero-length
\* piece, and returned all but the zero-length piece
C26_Witness ==
  /\ pc = "done"
  /\ Len(out) = 3
  /\ Len(cleaned) = 2
  /\ RowStatuses \cap SplitStatuses # {}
  /\ \E k \in 1..3 : out[k].end = out[k].start

----------------------------------------------------------------------------
(* reindexCorrections on input that is already valid *)

SpanOf(c) == <<c.start, c.end, c.original>>
SpansOf(list) == {SpanOf(list[k]) : k \in 1..Len(list)}

\* every input edit has a non-empty original that is canonical.slice(start,
\* end), the input spans do not overlap, and no edit exceeds the thresholds
ValidInput ==
  /\ \A k \in 1..Len(inputCorrs) :
       /\ inputCorrs[k].original # <<>>
       /\ Slice(canonical, inputCorrs[k].start, inputCorrs[k].end) = inputCorrs[k].original
       /\ Len(inputCorrs[k].original) <= OversizedChars
       /\ wordCount(inputCorrs[k].original) <= OversizedWords
  /\ \A j, k \in 1..Len(inputCorrs) :
       j # k => \/ inputCorrs[j].end <= inputCorrs[k].start
                \/ inputCorrs[k].end <= inputCorrs[j].start

\* the run returned the input edits' spans and originals, in ascending
\* order, and counted nothing
ReturnedUnchanged ==
  /\ Len(cleaned) = Len(inputCorrs)
  /\ SpansOf(cleaned) = SpansOf(inputCorrs)
  /\ \A k \in 1..(Len(cleaned) - 1) : cleaned[k].start <= cleaned[k + 1].start
  /\ metrics.reindexed_count = 0
  /\ metrics.skipped_count = 0
  /\ metrics.oversized_splits_count = 0

\* C27, as claimed: on such input the cleaned list is the input edits' spans
\* and originals in ascending start order, with reindexed_count,
\* skipped_count and oversized_splits_count all 0.
C27_IdentityOnValidInput ==
  pc = "done" /\ ValidInput => ReturnedUnchanged

\* C27, amended: the same when, in addition, no edit ends beyond the end of
\* the canonical text; an edit that does is returned with its end moved to
\* start + len(original).
C27_IdentityOnValidInputInBounds ==
  pc = "done" /\ ValidInput =>
    IF \A k \in 1..Len(inputCorrs) : inputCorrs[k].end <= Len(canonical)
    THEN ReturnedUnchanged
    ELSE /\ Len(cleaned) = Len(inputCorrs)
         /\ \A k \in 1..Len(cleaned) :
              /\ cleaned[k].start = byHint[k].start
              /\ cleaned[k].original = byHint[k].original
              /\ cleaned[k].end = cleaned[k].start + Len(cleaned[k].original)
         /\ SpansOf(cleaned) # SpansOf(inputCorrs)
         /\ metrics.reindexed_count = 0
         /\ metrics.skipped_count = 0
         /\ metrics.oversized_splits_count = 0

\* two valid edits given in descending order were returned in ascending order
C27_Witness ==
  /\ pc = "done"
  /\ ValidInput
  /\ Len(inputCorrs) = 2
  /\ inputCorrs[1].start > inputCorrs[2].start
  /\ \A k \in 1..2 : inputCorrs[k].end <= Len(canonical)
  /\ Len(cleaned) = 2
  /\ SpanOf(cleaned[1]) = SpanOf(inputCorrs[2])

----------------------------------------------------------------------------
(* splitOversized preserves the edit *)

\* text with the pieces applied from the last to the first: the range
\* [p.start - parentStart, p.end - parentStart) gives way to p.suggestion,
\* a piece of zero span being an insertion at its offset
RECURSIVE ApplyFromLast(_, _, _)
ApplyFromLast(text, parentStart, pieces) ==
  IF pieces = <<>> THEN text
  ELSE LET p == pieces[Len(pieces)] IN
       ApplyFromLast(Slice(text, 0, p.start - parentStart) \o p.suggestion
                       \o Slice(text, p.end - parentStart, Len(text)),
                     parentStart, SubSeq(pieces, 1, Len(pieces) - 1))

\* the growth of the text by the pieces
RECURSIVE GrowthOf(_)
GrowthOf(pieces) ==
  IF pieces = <<>> THEN 0
  ELSE Len(Head(pieces).suggestion) - (Head(pieces).end - Head(pieces).start)
       + GrowthOf(Tail(pieces))

\* C28: splitting preserves the edit's meaning: for every edit, oversized
\* or not, applying the returned pieces to edit.original, each on its range
\* relative to edit.start and a zero-span piece as an insertion, yields
\* edit.suggestion.
C28_SplitPreservesMeaning ==
  pc = "splitDone" =>
    /\ ApplyFromLast(fnIn.original, fnIn.start, fnOut) = fnIn.suggestion
    /\ Len(fnIn.original) + GrowthOf(fnOut) = Len(fnIn.suggestion)

\* an edit split into pieces of which one is an insertion and another
\* replaces text
C28_Witness ==
  /\ pc = "splitDone"
  /\ Len(fnOut) >= 2
  /\ \E k \in 1..Len(fnOut) :
       fnOut[k].end = fnOut[k].start /\ fnOut[k].suggestion # <<>>
  /\ \E k \in 1..Len(fnOut) :
       fnOut[k].end > fnOut[k].start /\ fnOut[k].suggestion # <<>>

----------------------------------------------------------------------------
(* The attachment maps of the two builders of highlights *)

\* the maps, the diagnostics and the input of the run that has ended; the
\* builder over offsets numbers the issues it kept after normalizing them
IssueToHunkOut == IF HlDone THEN fnOut.result.issueToHunk ELSE fnOut.issueToHunk
HunkToIssuesOut == IF HlDone THEN fnOut.result.hunkToIssues ELSE fnOut.hunkToIssues
DiagnosticsOut == IF HlDone THEN fnOut.result.diagnostics ELSE fnOut.diagnostics
InputEdits == IF HlDone THEN fnIn.issues ELSE fnIn.issuesInput
\* the number of entries of hunkToIssues: an array for the builder over
\* originals, a record for the builder over offsets
EntriesOut ==
  IF HlDone THEN Len(HunkToIssuesOut) ELSE Cardinality(hunkToIssuesKeys(HunkToIssuesOut))

ListedAt(i) ==
  {hk \in (1..Len(HunkToIssuesOut)) \X (1..MaxIssues) :
     hk[2] <= Len(HunkToIssuesOut[hk[1]]) /\ HunkToIssuesOut[hk[1]][hk[2]] = i - 1}

\* issueToHunk[i] = h exactly when i is listed in hunkToIssues[h], and no
\* edit is listed twice
MapsAgree ==
  \A i \in 1..Len(IssueToHunkOut) :
    /\ Cardinality(ListedAt(i)) <= 1
    /\ \A h \in 1..Len(HunkToIssuesOut) :
         (IssueToHunkOut[i] = h - 1) <=> (\E hk \in ListedAt(i) : hk[1] = h)
    /\ IssueToHunkOut[i] = NULL <=> ListedAt(i) = {}

\* C29 as claimed: the maps agree, every edit is attached to at most one
\* span and listed at most once, hunkToIssues has one entry per returned
\* span, and attachedIssues + unplacedIssues is the number of input edits.
C29_MapsConsistent ==
  (HlDone \/ HlByOffsetDone) =>
    /\ MapsAgree
    /\ EntriesOut = Len(SpansOut)
    /\ DiagnosticsOut.attachedIssues + DiagnosticsOut.unplacedIssues = Len(InputEdits)

\* the input edits the builder over offsets keeps: those whose end, clamped
\* to the source, is not before their clamped start
KeptByOffsets ==
  {k \in 1..Len(fnIn.issuesInput) :
     Max(0, Min(Len(fnIn.source), fnIn.issuesInput[k].end))
       >= Max(0, Min(Len(fnIn.source), fnIn.issuesInput[k].start))}

\* C29: in both builders the maps agree and every edit is attached to at
\* most one span and listed at most once. The builder over originals has
\* one entry of hunkToIssues per span and attachedIssues + unplacedIssues
\* equal to the number of input edits. The builder over offsets has an
\* entry of hunkToIssues only for the spans with an edit attached, and
\* attachedIssues + unplacedIssues equal to the number of input edits it
\* keeps, those with end >= start once clamped to the source.
C29_MapsConsistentPerBuilder ==
  /\ (HlDone \/ HlByOffsetDone) =>
       /\ MapsAgree
       /\ DiagnosticsOut.attachedIssues =
            Cardinality({i \in 1..Len(IssueToHunkOut) : IssueToHunkOut[i] # NULL})
  /\ HlDone =>
       /\ EntriesOut = Len(SpansOut)
       /\ Len(IssueToHunkOut) = Len(InputEdits)
       /\ DiagnosticsOut.attachedIssues + DiagnosticsOut.unplacedIssues = Len(InputEdits)
  /\ HlByOffsetDone =>
       /\ EntriesOut = Cardinality({h \in 1..Len(SpansOut) : AttachedTypes(h) # <<>>})
       /\ Len(IssueToHunkOut) = Cardinality(KeptByOffsets)
       /\ DiagnosticsOut.attachedIssues + DiagnosticsOut.unplacedIssues
            = Cardinality(KeptByOffsets)

\* the builder over offsets returned a span with two edits attached, left
\* one edit unplaced and dropped none
C29_Witness ==
  /\ HlByOffsetDone
  /\ Len(InputEdits) = 3
  /\ Cardinality(KeptByOffsets) = 3
  /\ \E h \in 1..Len(SpansOut) : Len(HunkToIssuesOut[h]) = 2
  /\ DiagnosticsOut.unplacedIssues = 1

\* the builder over originals returned two spans, one with an edit attached
\* and one with none, and left an edit unplaced
C29_ByOriginalsReached ==
  /\ HlDone
  /\ Len(SpansOut) = 2
  /\ DiagnosticsOut.attachedIssues = 1
  /\ DiagnosticsOut.unplacedIssues >= 1
  /\ \E h \in 1..2 : HunkToIssuesOut[h] = <<>>

\* the builder over offsets dropped an edit whose end is before its start
C29_DroppedEditReached ==
  /\ HlByOffsetDone
  /\ Cardinality(KeptByOffsets) < Len(InputEdits)
  /\ DiagnosticsOut.attachedIssues >= 1

----------------------------------------------------------------------------
(* What the resolver leaves alone *)

\* the input edit a piece derives from, and whether that edit was split
ParentOf(c) == inputCorrs[c.idx + 1]
WasSplit(c) == \E k \in PieceRowsOf(c.idx) : rows[k].status \in SplitStatuses

=============================================================================
